---- MODULE Spec2Model ----
(***************************************************************************)
(* Donation detection and rolling-window ledger of the AniGame donation    *)
(* tracker (src/bot/donation_tracker.py, src/main.py).                     *)
(*                                                                         *)
(* Time is counted in whole hours since an epoch.  Python dicts keep       *)
(* insertion order, so every dict is a sequence of [k, v] entries.         *)
(* The bot runs on one asyncio event loop: a coroutine keeps the loop      *)
(* until it reaches an await, so `cur` is the one coroutine that runs and  *)
(* `awaiting` holds the coroutines suspended at an await.  Any number of   *)
(* handlers may be suspended; those at the same statement with the same    *)
(* locals behave alike and are kept once.                                  *)
(***************************************************************************)
EXTENDS Integers, Sequences, FiniteSets, TLC

VARIABLES now,                 \* the wall clock, in hours
          donations_data,      \* DonationTracker.donations_data (in memory)
          disk,                \* the content of data/donations.json
          registered_players,  \* DonationTracker.registered_players
          cur,                 \* the coroutine that holds the event loop
          awaiting,            \* the set of coroutines suspended at an await
          sweptNow,            \* history: the last ledger operation was a
                               \* sweep and the clock has not moved since
          history,             \* history: amounts passed to add_donation
          loop,                \* the tasks.loop that runs daily_cleanup
          file,                \* data/donations.json, as JSON
          players_file,        \* data/registered_players.json, as JSON
          loaded,              \* history: the last step was DonationTracker()
          board,               \* the weekly leaderboard of !donations
          text,                \* the text given to parse_donation_message
          donation_info,       \* what parse_donation_message returned
          target_file,         \* data/weekly_target.json, as JSON
          returned,            \* the function called last, what it returned
          fault                \* the exception that left that call, or None

loopVars == <<loop>>
fileVars == <<file, players_file, loaded>>
boardVars == <<board>>
parseVars == <<text, donation_info>>
startVars == <<target_file, returned, fault>>

vars == <<now, donations_data, disk, registered_players,
          cur, awaiting, sweptNow, history, loop, file, players_file, loaded,
          board, text, donation_info, target_file, returned, fault>>

(* The variables the message handlers and the sweep leave alone. *)
aux == <<loopVars, fileVars, boardVars, parseVars, startVars>>

----------------------------------------------------------------------------
(* Bounds of the model *)

MaxTime == 168
MaxEvents == 2
MaxLoopTime == 192

(* Program constants *)

WeekDays == 7
HoursPerDay == 24
TopShown == 10

Guilds == {"g1", "g2"}
Users == {"u1", "u2"}
(* The amounts the messages of the model carry. *)
Amounts == {1, 2}
None == "None"

(* The display name an administrator registers a user under. *)
PlayerName(u) == IF u = "u1" THEN "a" ELSE "b"
Names == {PlayerName(u) : u \in Users}

(* datetime.weekday() of the day of hour 0, a Monday; Sunday is 6 *)
EpochWeekday == 0
Sunday == 6

(* The clock is read at steps of 6d23h and of 7d0h. *)
TickSteps == {WeekDays * HoursPerDay - 1, WeekDays * HoursPerDay}

----------------------------------------------------------------------------
(* Ordered dicts *)

Keys(d) == {d[i].k : i \in DOMAIN d}
Has(d, key) == key \in Keys(d)
Idx(d, key) == CHOOSE i \in DOMAIN d : d[i].k = key
Get(d, key) == d[Idx(d, key)].v
Put(d, key, val) ==
    IF Has(d, key) THEN [d EXCEPT ![Idx(d, key)].v = val]
    ELSE Append(d, [k |-> key, v |-> val])
Del(d, key) == SelectSeq(d, LAMBDA e : e.k # key)

RECURSIVE SumAmounts(_)
SumAmounts(s) == IF s = <<>> THEN 0 ELSE Head(s).amount + SumAmounts(Tail(s))

RECURSIVE SumSeq(_)
SumSeq(s) == IF s = <<>> THEN 0 ELSE Head(s) + SumSeq(Tail(s))

----------------------------------------------------------------------------
(* Timestamps: isoformat() writes the instant as text, fromisoformat()     *)
(* reads it back; the text is the pair <<day, hour of day>>.               *)

isoformat(t) == <<t \div HoursPerDay, t % HoursPerDay>>
fromisoformat(s) == s[1] * HoursPerDay + s[2]

(* timedelta.days: whole days, rounded toward minus infinity *)
days(delta) == delta \div HoursPerDay

----------------------------------------------------------------------------
(* add_donation, lines 230-283: the update of the in-memory ledger *)

NewGuildData ==
    [weekly_donations |-> <<>>, total_donations |-> <<>>, last_reset |-> None]

(* the week starts at midnight of the day of the donation *)
NewWeekly_Midnight(player_name, timestamp) ==
    [name |-> player_name, amount |-> 0, donations |-> <<>>,
     week_start |-> <<timestamp[1], 0>>]

NewWeekly(player_name, timestamp) ==
    [name |-> player_name, amount |-> 0, donations |-> <<>>,
     week_start |-> timestamp]

NewTotal(player_name) ==
    [name |-> player_name, amount |-> 0, donations |-> <<>>]

(* the comparison written as > *)
WeekExpiredOnAdd_GT(week_start, t) ==
    days(t - fromisoformat(week_start)) > WeekDays

(* lines 259-262: days_since_start >= 7 *)
WeekExpiredOnAdd(week_start, t) ==
    days(t - fromisoformat(week_start)) >= WeekDays

(* the reset clears the events and keeps the running total *)
ResetIfExpired_KeepAmount(entry, player_name, t) ==
    IF WeekExpiredOnAdd(entry.week_start, t)
    THEN [entry EXCEPT !.donations = <<>>, !.week_start = isoformat(t)]
    ELSE entry

(* the reset clears the events and the running total and keeps the start *)
ResetIfExpired_KeepStart(entry, player_name, t) ==
    IF WeekExpiredOnAdd(entry.week_start, t)
    THEN [entry EXCEPT !.amount = 0, !.donations = <<>>]
    ELSE entry

(* lines 262-269: the weekly entry after the expiry check *)
ResetIfExpired(entry, player_name, t) ==
    IF WeekExpiredOnAdd(entry.week_start, t)
    THEN NewWeekly(player_name, isoformat(t))
    ELSE entry

(* = written for += *)
AddRecord_Assign(entry, record) ==
    [entry EXCEPT !.amount = record.amount,
                  !.donations = Append(@, record)]

(* the new record is put in front of the earlier ones *)
AddRecord_Prepend(entry, record) ==
    [entry EXCEPT !.amount = @ + record.amount,
                  !.donations = <<record>> \o @]

(* a record equal to one already there is not appended again *)
AddRecord_Dedup(entry, record) ==
    IF \E i \in DOMAIN entry.donations : entry.donations[i] = record
    THEN entry
    ELSE [entry EXCEPT !.amount = @ + record.amount,
                       !.donations = Append(@, record)]

(* lines 278-279 and 282-283: amount += amount; donations.append(record) *)
AddRecord(entry, record) ==
    [entry EXCEPT !.amount = @ + record.amount,
                  !.donations = Append(@, record)]

(* the reset on write clears the windows of the whole guild *)
add_donation_ResetGuild(dd, guild_id, user_id, player_name, amount, t) ==
    LET timestamp == isoformat(t)
        d1 == IF Has(dd, guild_id) THEN dd
              ELSE Put(dd, guild_id, NewGuildData)
        gd == Get(d1, guild_id)
        w1 == IF Has(gd.weekly_donations, user_id) THEN gd.weekly_donations
              ELSE Put(gd.weekly_donations, user_id,
                       NewWeekly(player_name, timestamp))
        t1 == IF Has(gd.total_donations, user_id) THEN gd.total_donations
              ELSE Put(gd.total_donations, user_id, NewTotal(player_name))
        w2 == IF WeekExpiredOnAdd(Get(w1, user_id).week_start, t)
              THEN <<[k |-> user_id, v |-> NewWeekly(player_name, timestamp)]>>
              ELSE w1
        donation_record == [amount |-> amount, timestamp |-> timestamp]
        w3 == Put(w2, user_id, AddRecord(Get(w2, user_id), donation_record))
        t2 == Put(t1, user_id, AddRecord(Get(t1, user_id), donation_record))
    IN  Put(d1, guild_id, [gd EXCEPT !.weekly_donations = w3,
                                     !.total_donations = t2])

add_donation(dd, guild_id, user_id, player_name, amount, t) ==
    LET timestamp == isoformat(t)
        d1 == IF Has(dd, guild_id) THEN dd
              ELSE Put(dd, guild_id, NewGuildData)
        gd == Get(d1, guild_id)
        w1 == IF Has(gd.weekly_donations, user_id) THEN gd.weekly_donations
              ELSE Put(gd.weekly_donations, user_id,
                       NewWeekly(player_name, timestamp))
        t1 == IF Has(gd.total_donations, user_id) THEN gd.total_donations
              ELSE Put(gd.total_donations, user_id, NewTotal(player_name))
        w2 == Put(w1, user_id,
                  ResetIfExpired(Get(w1, user_id), player_name, t))
        donation_record == [amount |-> amount, timestamp |-> timestamp]
        w3 == Put(w2, user_id, AddRecord(Get(w2, user_id), donation_record))
        t2 == Put(t1, user_id, AddRecord(Get(t1, user_id), donation_record))
    IN  Put(d1, guild_id, [gd EXCEPT !.weekly_donations = w3,
                                     !.total_donations = t2])

----------------------------------------------------------------------------
(* cleanup_expired_weeks, lines 380-401: the update of the in-memory ledger *)

(* the comparison written as > *)
WeekExpiredOnCleanup_GT(week_start, t) ==
    days(t - fromisoformat(week_start)) > WeekDays

(* lines 390-393: days_elapsed >= 7 *)
WeekExpiredOnCleanup(week_start, t) ==
    days(t - fromisoformat(week_start)) >= WeekDays

(* the scan stops at the first expired identity *)
expired_players_First(weekly, t) ==
    LET exp == SelectSeq(weekly,
                         LAMBDA e : WeekExpiredOnCleanup(e.v.week_start, t))
    IN  IF exp = <<>> THEN <<>> ELSE <<exp[1].k>>

(* lines 387-394: the identities whose week has expired, in dict order *)
expired_players(weekly, t) ==
    LET exp == SelectSeq(weekly,
                         LAMBDA e : WeekExpiredOnCleanup(e.v.week_start, t))
    IN  [i \in DOMAIN exp |-> exp[i].k]

RECURSIVE DelAll(_, _)
DelAll(d, ks) == IF ks = <<>> THEN d ELSE DelAll(Del(d, Head(ks)), Tail(ks))

(* the expired identities are deleted from total_donations *)
cleanup_guild_Totals(guild_data, t) ==
    [guild_data EXCEPT
       !.total_donations =
          DelAll(@, expired_players(guild_data.weekly_donations, t))]

(* one expired week clears the weekly entries of the whole guild *)
cleanup_guild_All(guild_data, t) ==
    [guild_data EXCEPT
       !.weekly_donations = IF expired_players(@, t) = <<>> THEN @ ELSE <<>>]

(* lines 397-401; every guild entry of the model has weekly_donations *)
cleanup_guild(guild_data, t) ==
    [guild_data EXCEPT
       !.weekly_donations = DelAll(@, expired_players(@, t))]

cleanup_expired_weeks(dd, t) ==
    [i \in DOMAIN dd |-> [k |-> dd[i].k, v |-> cleanup_guild(dd[i].v, t)]]

RECURSIVE total_cleaned(_, _)
total_cleaned(dd, t) ==
    IF dd = <<>> THEN 0
    ELSE Len(expired_players(Head(dd).v.weekly_donations, t))
         + total_cleaned(Tail(dd), t)

----------------------------------------------------------------------------
(* The player directory *)

is_player_registered(guild_id, user_id) ==
    Has(registered_players, guild_id)
    /\ Has(Get(registered_players, guild_id), user_id)

(* get_weekly_donations / get_total_donations on a ledger document *)
WeeklyOf(dd, g) == IF Has(dd, g) THEN Get(dd, g).weekly_donations ELSE <<>>
TotalOf(dd, g) == IF Has(dd, g) THEN Get(dd, g).total_donations ELSE <<>>
get_weekly_donations(g) == WeeklyOf(donations_data, g)
get_total_donations(g) == TotalOf(donations_data, g)

----------------------------------------------------------------------------
(* Calls: what a call gives back is a value, or the exception it raises.   *)

Returns(value) == [raised |-> None, value |-> value]
Raises(exc) == [raised |-> exc, value |-> None]

----------------------------------------------------------------------------
(* The leaderboard order and the weekly report *)

Front(s) == SubSeq(s, 1, Len(s) - 1)

Max(a, b) == IF a >= b THEN a ELSE b

(* an entry goes before the entries of the same amount *)
PlaceDesc_BeforeEqual(s, e) ==
    LET before == SelectSeq(s, LAMBDA x : x.v.amount > e.v.amount)
        after == SelectSeq(s, LAMBDA x : x.v.amount <= e.v.amount)
    IN  before \o <<e>> \o after

(* The place of one more entry in a list in descending order of amount:    *)
(* sorted() is stable, also with reverse=True, so the entry goes behind    *)
(* the entries of the same amount that came before it.                     *)
PlaceDesc(s, e) ==
    LET before == SelectSeq(s, LAMBDA x : x.v.amount >= e.v.amount)
        after == SelectSeq(s, LAMBDA x : x.v.amount < e.v.amount)
    IN  before \o <<e>> \o after

(* sorted(weekly_data.items(), key=lambda x: x[1]["amount"], reverse=True) *)
RECURSIVE sorted_by_amount(_)
sorted_by_amount(items) ==
    IF items = <<>> THEN <<>>
    ELSE PlaceDesc(sorted_by_amount(Front(items)), items[Len(items)])

NoDonationsText == "No donations recorded this week."

(* lines 347-371: the line of the report for the entry of rank i *)
ReportLine(i, data, t) ==
    [rank |-> i, name |-> data.name, amount |-> data.amount,
     donation_count |-> Len(data.donations),
     days_remaining |->
        Max(0, WeekDays - days(t - fromisoformat(data.week_start)))]

(* line 331: self.donations_data["weekly_donations"], a KeyError when the  *)
(* ledger document has no such top-level key                               *)
weekly_data_of(dd) ==
    IF Has(dd, "weekly_donations")
    THEN Returns(Get(dd, "weekly_donations"))
    ELSE Raises("KeyError")

(* generate_weekly_report, lines 329-376, called at time t *)
generate_weekly_report(dd, t) ==
    LET looked == weekly_data_of(dd)
        weekly_data == looked.value
        sorted_players == sorted_by_amount(weekly_data)
    IN  IF looked.raised # None THEN looked
        ELSE IF weekly_data = <<>> THEN Returns(NoDonationsText)
        ELSE Returns([lines |-> [i \in DOMAIN sorted_players |->
                                   ReportLine(i, sorted_players[i].v, t)],
                      total_donated |->
                         SumAmounts([i \in DOMAIN sorted_players |->
                                       sorted_players[i].v]),
                      active_donors |-> Len(sorted_players)])

----------------------------------------------------------------------------
(* Coroutines.  A task is one activation of on_message or of daily_cleanup; *)
(* pc names the statement it executes next.                                 *)

(* mentions, names: message.mentions and the names found in the text;    *)
(* todo: the players add_donation is still to be called for; done: the   *)
(* players it has returned for; outcome: the reaction the handler puts   *)
(* on the message ("check", "question"), or "not_donation" or "error"    *)
(* when it puts none; raised: an exception leaves the handler.           *)
Task(kind, pc, g, amount, mentions, names, todo) ==
    [kind |-> kind, pc |-> pc, g |-> g, amount |-> amount,
     mentions |-> mentions, names |-> names, todo |-> todo, done |-> <<>>,
     resumed |-> FALSE, outcome |-> "-", raised |-> FALSE]

NoTask == Task("none", "-", "-", 0, <<>>, {}, <<>>)

SweepTask == Task("sweep", "save", "-", 0, <<>>, {}, <<>>)

(* From line 169 on the handler reads neither the message nor its locals. *)
Forget(task) ==
    [task EXCEPT !.g = "-", !.amount = 0, !.mentions = <<>>, !.names = {},
                 !.todo = <<>>, !.done = <<>>, !.resumed = FALSE]

(* lines 169-174: the handler calls message.add_reaction *)
ToReact(task) ==
    Forget([task EXCEPT
              !.pc = "react",
              !.outcome = IF task.done # <<>> THEN "check" ELSE "question"])

(* process_donation_message is over: what its caller observes. *)
Returned(task, outcome, raised) ==
    Forget([task EXCEPT !.pc = "returned", !.outcome = outcome,
                        !.raised = raised])

(* save_donations awaited as well *)
AwaitPoint_Save(pc) == pc \in {"react", "save"}

(* The statements that start with `await`: message.add_reaction at lines   *)
(* 171 and 174, where the handler sends its reaction and is suspended      *)
(* until the reply.  add_donation, save_donations and                      *)
(* cleanup_expired_weeks are plain calls.                                  *)
AwaitPoint(pc) == pc = "react"

(* A task at "save" has updated the ledger in memory and not yet saved it. *)
InMutation(pc) == pc = "save"

(* The task reaches its next statement: at an await it gives up the loop. *)
Continue(task) ==
    IF AwaitPoint(task.pc)
    THEN cur' = NoTask /\ awaiting' = awaiting \cup {task}
    ELSE cur' = task /\ awaiting' = awaiting

EventsOf(g) == Len(history[g]["u1"]) + Len(history[g]["u2"])

TotalEvents == EventsOf("g1") + EventsOf("g2")

----------------------------------------------------------------------------
(* process_donation_message, lines 120-167: attribution *)

(* the players of every guild, one guild after the other *)
RECURSIVE AllPlayers(_)
AllPlayers(rp) ==
    IF rp = <<>> THEN <<>> ELSE Head(rp).v \o AllPlayers(Tail(rp))

(* the directory is searched as a whole, not by guild *)
PlayersOf_AllGuilds(g) == AllPlayers(registered_players)

(* lines 142 and 152: the entries of the guild in the directory *)
PlayersOf(g) ==
    IF Has(registered_players, g) THEN Get(registered_players, g) ELSE <<>>

(* lines 140-141: the mentioned users that are registered, in mention order *)
RegisteredMentions(g, mentions) ==
    SelectSeq(mentions, LAMBDA u : is_player_registered(g, u))

(* lines 153-167: the first player of the directory whose name occurs in    *)
(* the text; `names` is the set of clean lower-case names the text contains *)
NameMatch(g, names) ==
    LET hits == SelectSeq(PlayersOf(g), LAMBDA e : e.v \in names)
    IN  IF hits = <<>> THEN <<>> ELSE <<Head(hits).k>>

(* the name search tried before the mentions *)
Attribution_NameFirst(g, mentions, names) ==
    IF NameMatch(g, names) # <<>>
    THEN NameMatch(g, names)
    ELSE RegisteredMentions(g, mentions)

(* The players add_donation is called for, in call order. *)
Attribution(g, mentions, names) ==
    IF RegisteredMentions(g, mentions) # <<>>
    THEN RegisteredMentions(g, mentions)
    ELSE NameMatch(g, names)

(* lines 92 and 178-179: `except Exception` logs the error and returns; no  *)
(* exception leaves process_donation_message.                               *)
RaisedToCaller(exc) == FALSE

(* the failed write is caught inside save_donations *)
SaveRaises_Swallowed(ok) == FALSE

(* save_donations, lines 51-55: nothing catches a failed open or dump *)
SaveRaises(ok) == ~ok

(* message.mentions, line 123, and the names in content_to_search, lines   *)
(* 127-132, of the messages of the model: no player, names only, one       *)
(* mention, one mention and the name of the other user, two mentions.      *)
MentionsAndNames ==
    {<<(<<>>), ns>> : ns \in SUBSET Names}
    \cup {<<(<<u>>), {}>> : u \in Users}
    \cup {<<(<<u>>), Names \ {PlayerName(u)}>> : u \in Users}
    \cup {<<(<<p[1], p[2]>>), {}>> : p \in {q \in Users \X Users : q[1] # q[2]}}

(* The messages on_message receives.  `info` is what                       *)
(* parse_donation_message returns for the first text source that yields    *)
(* an amount, lines 104-118: <<amount>>, or <<>> for None.  Line 120: the  *)
(* handler reads no mention and no name of a message without an amount.    *)
Messages ==
    {[mentions |-> <<>>, names |-> {}, info |-> <<>>]}
    \cup {[mentions |-> s[1], names |-> s[2], info |-> <<a>>] :
             s \in MentionsAndNames, a \in Amounts}

----------------------------------------------------------------------------
(* Actions *)

(* The parts of the state a specification does not use. *)
NoLoop == loop = "-"
NoFiles == file = "-" /\ players_file = "-" /\ loaded = FALSE
NoBoard == board = "-"
NoParse == text = "-" /\ donation_info = "-"
NoStart == target_file = "-" /\ returned = "-" /\ fault = "-"

(* The documents found at start: no ledger file, and a player directory.   *)
InitPlayers ==
    << [k |-> "g1", v |-> << [k |-> "u1", v |-> PlayerName("u1")],
                             [k |-> "u2", v |-> PlayerName("u2")] >>],
       [k |-> "g2", v |-> << [k |-> "u1", v |-> PlayerName("u1")] >>] >>

Init ==
    /\ now = 0
    /\ donations_data = <<>>
    /\ disk = <<>>
    /\ registered_players = InitPlayers
    /\ cur = NoTask
    /\ awaiting = {}
    /\ sweptNow = FALSE
    /\ history = [g \in Guilds |-> [u \in Users |-> <<>>]]
    /\ NoLoop
    /\ NoFiles /\ NoBoard /\ NoParse /\ NoStart

(* The clock advances while no coroutine holds the loop. *)
Tick(d) ==
    /\ UNCHANGED aux
    /\ cur = NoTask
    /\ now + d <= MaxTime
    /\ now' = now + d
    /\ sweptNow' = FALSE
    /\ UNCHANGED <<donations_data, disk, registered_players, cur, awaiting,
                   history>>

(* add_donation, lines 228-283, called at line 146 or 163 for the next     *)
(* player of the handler                                                   *)
Record(task) ==
    /\ LET u == Head(task.todo)
           player_name == Get(PlayersOf(task.g), u)
       IN  /\ donations_data' = add_donation(donations_data, task.g, u,
                                             player_name, task.amount, now)
           /\ history' = [history EXCEPT ![task.g][u] = Append(@, task.amount)]
    /\ sweptNow' = FALSE
    /\ Continue([task EXCEPT !.pc = "save", !.resumed = FALSE])

(* on_message -> process_donation_message, lines 103-138 and 175-176.      *)
(* up to its first call of add_donation, add_donation up to line 283       *)
(* included, the handler has no await.                                     *)
OnMessage(g, mentions, names, info) ==
    /\ UNCHANGED aux
    /\ cur = NoTask
    /\ IF info = <<>>
       THEN /\ Continue(Returned(Task("msg", "-", g, 0, mentions, names, <<>>),
                                 "not_donation", FALSE))
            /\ UNCHANGED <<donations_data, sweptNow, history>>
       ELSE LET todo == Attribution(g, mentions, names)
                task == Task("msg", "add", g, info[1], mentions, names, todo)
            IN  /\ TotalEvents + Len(todo) <= MaxEvents
                /\ IF todo = <<>>
                   THEN /\ Continue(ToReact(task))
                        /\ UNCHANGED <<donations_data, sweptNow, history>>
                   ELSE Record(task)
    /\ UNCHANGED <<now, disk, registered_players>>

(* add_donation, lines 228-283, called at line 146 for a further mention *)
AddDonation ==
    /\ UNCHANGED aux
    /\ cur.kind = "msg"
    /\ cur.pc = "add"
    /\ Record(cur)
    /\ UNCHANGED <<now, disk, registered_players>>

(* save_donations, lines 51-55, called at line 286 or 404.  The write      *)
(* either replaces the document or raises and leaves the file as it was.   *)
SaveDonations(ok) ==
    /\ UNCHANGED aux
    /\ cur.pc = "save"
    /\ AwaitPoint("save") => cur.resumed
    /\ disk' = IF ok THEN donations_data ELSE disk
    /\ IF cur.kind = "msg"
       THEN IF SaveRaises(ok)
            THEN Continue(Returned(cur, "error", RaisedToCaller("OSError")))
            ELSE LET next == [cur EXCEPT
                                !.todo = Tail(cur.todo),
                                !.done = Append(cur.done, Head(cur.todo)),
                                !.pc = "add", !.resumed = FALSE]
                 IN  Continue(IF next.todo = <<>> THEN ToReact(next) ELSE next)
       ELSE cur' = NoTask /\ UNCHANGED awaiting
    /\ UNCHANGED <<now, donations_data, registered_players, sweptNow, history>>

(* The awaited call of a suspended coroutine completes; `more`: another    *)
(* coroutine is suspended at the same statement with the same locals.      *)
(* After add_reaction, lines 171 and 174, the handler returns at once.     *)
Resume(task, more) ==
    /\ UNCHANGED aux
    /\ cur = NoTask
    /\ task \in awaiting
    /\ cur' = IF task.pc = "react" THEN NoTask
              ELSE [task EXCEPT !.resumed = TRUE]
    /\ awaiting' = IF more THEN awaiting ELSE awaiting \ {task}
    /\ UNCHANGED <<now, donations_data, disk, registered_players,
                   sweptNow, history>>

(* main.py lines 48-51: process_donation_message is back in on_message *)
Return ==
    /\ UNCHANGED aux
    /\ cur.kind = "msg"
    /\ cur.pc = "returned"
    /\ cur' = NoTask
    /\ UNCHANGED <<now, donations_data, disk, registered_players, awaiting,
                   sweptNow, history>>

(* daily_cleanup, main.py lines 53-59 -> cleanup_expired_weeks, 378-403 *)
DailyCleanup ==
    /\ UNCHANGED aux
    /\ cur = NoTask
    /\ donations_data' = cleanup_expired_weeks(donations_data, now)
    /\ sweptNow' = TRUE
    /\ IF total_cleaned(donations_data, now) > 0
       THEN Continue(SweepTask)
       ELSE UNCHANGED <<cur, awaiting>>
    /\ UNCHANGED <<now, disk, registered_players, history>>

Next ==
    \/ \E d \in TickSteps : Tick(d)
    \/ \E g \in Guilds, m \in Messages :
          OnMessage(g, m.mentions, m.names, m.info)
    \/ AddDonation
    \/ \E ok \in BOOLEAN : SaveDonations(ok)
    \/ \E task \in awaiting, more \in BOOLEAN : Resume(task, more)
    \/ Return
    \/ DailyCleanup

Spec == Init /\ [][Next]_vars

----------------------------------------------------------------------------
(* The scheduled pass: main.py, daily_cleanup under @tasks.loop(hours=24).  *)
(* loop is "due" when an iteration is to run now, "sleeping" between two    *)
(* iterations and "stopped" when the task of the loop has ended.            *)

weekday(t) == ((t \div HoursPerDay) + EpochWeekday) % 7

(* discord.ext.tasks: an exception that leaves the loop body ends the task, *)
(* except the connection errors (OSError among them), after which the body  *)
(* is run again.                                                            *)
LoopAfter(exc) ==
    IF exc = None THEN "sleeping"
    ELSE IF exc = "OSError" THEN "due"
    ELSE "stopped"

(* main.py lines 62-74, after the sweep: the exception that leaves the     *)
(* Sunday summary, or None; channel: bot.get_channel found the channel.    *)
WeeklySummary(dd, t, channel) ==
    IF weekday(t) = Sunday /\ channel
    THEN generate_weekly_report(dd, t).raised
    ELSE None

(* on_ready has started the loop, whose first iteration runs at once *)
LoopInit ==
    /\ now = 0
    /\ donations_data = <<>>
    /\ disk = <<>>
    /\ registered_players = InitPlayers
    /\ cur = NoTask
    /\ awaiting = {}
    /\ sweptNow = FALSE
    /\ history = [g \in Guilds |-> [u \in Users |-> <<>>]]
    /\ loop = "due"
    /\ NoFiles /\ NoBoard /\ NoParse /\ NoStart

(* one iteration of daily_cleanup, main.py lines 54-74; ok: the write of    *)
(* save_donations succeeds                                                  *)
DailyPass(channel, ok) ==
    /\ UNCHANGED <<fileVars, boardVars, parseVars, startVars>>
    /\ loop = "due"
    /\ LET swept == cleanup_expired_weeks(donations_data, now)
           saves == total_cleaned(donations_data, now) > 0
           exc == IF saves /\ SaveRaises(ok) THEN "OSError"
                  ELSE WeeklySummary(swept, now, channel)
       IN  /\ donations_data' = swept
           /\ disk' = IF saves /\ ok THEN swept ELSE disk
           /\ loop' = LoopAfter(exc)
    /\ sweptNow' = TRUE
    /\ UNCHANGED <<now, registered_players, cur, awaiting, history>>

(* 24 hours pass; a sleeping loop wakes up for its next iteration *)
DayPasses ==
    /\ UNCHANGED <<fileVars, boardVars, parseVars, startVars>>
    /\ loop # "due"
    /\ now + HoursPerDay <= MaxLoopTime
    /\ now' = now + HoursPerDay
    /\ loop' = IF loop = "sleeping" THEN "due" ELSE loop
    /\ sweptNow' = FALSE
    /\ UNCHANGED <<donations_data, disk, registered_players, cur, awaiting,
                   history>>

(* a donation of a registered player is recorded and saved *)
Donate(g, u, amount) ==
    /\ UNCHANGED <<fileVars, boardVars, parseVars, startVars>>
    /\ loop # "due"
    /\ is_player_registered(g, u)
    /\ TotalEvents < MaxEvents
    /\ donations_data' = add_donation(donations_data, g, u,
                                      Get(PlayersOf(g), u), amount, now)
    /\ disk' = donations_data'
    /\ history' = [history EXCEPT ![g][u] = Append(@, amount)]
    /\ sweptNow' = FALSE
    /\ UNCHANGED <<now, registered_players, cur, awaiting, loop>>

(* main.py lines 25-28: on_ready again, after a reconnection; start() runs *)
(* a loop whose task has ended                                             *)
OnReady ==
    /\ UNCHANGED <<fileVars, boardVars, parseVars, startVars>>
    /\ loop = "stopped"
    /\ loop' = "due"
    /\ UNCHANGED <<now, donations_data, disk, registered_players, cur,
                   awaiting, sweptNow, history>>

LoopNext ==
    \/ \E channel \in BOOLEAN, ok \in BOOLEAN : DailyPass(channel, ok)
    \/ DayPasses
    \/ \E g \in Guilds, u \in Users, amount \in Amounts : Donate(g, u, amount)
    \/ OnReady

(* The scheduler runs a due iteration, and time passes; nothing makes the  *)
(* gateway reconnect.                                                      *)
LoopSpec ==
    /\ LoopInit
    /\ [][LoopNext]_vars
    /\ WF_vars(\E channel \in BOOLEAN, ok \in BOOLEAN : DailyPass(channel, ok))
    /\ WF_vars(DayPasses)

----------------------------------------------------------------------------
(* The JSON documents.  json.dump writes None as null, an int as a number, *)
(* a str as a string, a list as an array and a dict as an object whose     *)
(* members keep the order of the dict; json.load reads them back.  The     *)
(* model keeps a dict with the keys of a fixed layout as a record and any  *)
(* other dict as a sequence of entries: `fixed` tells which.               *)

JNull == [t |-> "null"]
JNum(n) == [t |-> "number", n |-> n]
JStr(str) == [t |-> "string", s |-> str]
JArr(items) == [t |-> "array", items |-> items]
JObj(members, fixed) == [t |-> "object", members |-> members, fixed |-> fixed]

Member(key, val) == [k |-> key, v |-> val]

dump_optional(x) == IF x = None THEN JNull ELSE JStr(x)

dump_record(r) ==
    JObj(<<Member("amount", JNum(r.amount)),
           Member("timestamp", JStr(r.timestamp))>>, TRUE)

dump_records(l) == JArr([i \in DOMAIN l |-> dump_record(l[i])])

dump_weekly(e) ==
    JObj(<<Member("name", JStr(e.name)), Member("amount", JNum(e.amount)),
           Member("donations", dump_records(e.donations)),
           Member("week_start", JStr(e.week_start))>>, TRUE)

dump_total(e) ==
    JObj(<<Member("name", JStr(e.name)), Member("amount", JNum(e.amount)),
           Member("donations", dump_records(e.donations))>>, TRUE)

(* a dict whose keys are data: one member per item, values as converted *)
dump_dict(d, values) ==
    JObj([i \in DOMAIN d |-> Member(d[i].k, values[i])], FALSE)

(* the three sections of one tenant, or of an old single-tenant document *)
dump_sections(gd) ==
    <<Member("weekly_donations",
             dump_dict(gd.weekly_donations,
                       [i \in DOMAIN gd.weekly_donations |->
                           dump_weekly(gd.weekly_donations[i].v)])),
      Member("total_donations",
             dump_dict(gd.total_donations,
                       [i \in DOMAIN gd.total_donations |->
                           dump_total(gd.total_donations[i].v)])),
      Member("last_reset", dump_optional(gd.last_reset))>>

dump_guild_data(gd) == JObj(dump_sections(gd), TRUE)

(* json.dump(self.donations_data, f), line 55 *)
dump_donations(dd) ==
    dump_dict(dd, [i \in DOMAIN dd |-> dump_guild_data(dd[i].v)])

dump_players(players) ==
    dump_dict(players, [i \in DOMAIN players |-> JStr(players[i].v)])

(* json.dump(self.registered_players, f), line 61 *)
dump_registered_players(rp) ==
    dump_dict(rp, [i \in DOMAIN rp |-> dump_players(rp[i].v)])

(* json.load *)
RECURSIVE json_load(_)
json_load(j) ==
    CASE j.t = "null" -> None
      [] j.t = "number" -> j.n
      [] j.t = "string" -> j.s
      [] j.t = "array" -> [i \in DOMAIN j.items |-> json_load(j.items[i])]
      [] j.t = "object" ->
            IF j.fixed
            THEN [key \in Keys(j.members) |-> json_load(Get(j.members, key))]
            ELSE [i \in DOMAIN j.members |->
                    Member(j.members[i].k, json_load(j.members[i].v))]

(* os.path.exists is false *)
NoFile == [t |-> "none"]

(* The keys of the model: the guild and user ids are Discord snowflakes,   *)
(* 18 decimal digits; "0" is one digit; every other key has a character    *)
(* that is no digit.  DigitCount(k) is len(k) when k.isdigit(), and 0      *)
(* otherwise.                                                              *)
DiscordIds == Guilds \cup Users
DigitCount(key) ==
    IF key \in DiscordIds THEN 18
    ELSE IF key = "0" THEN 1
    ELSE 0

(* lines 24 and 41: str(k).isdigit() and len(str(k)) > 10 *)
LooksLikeTenantId_Longer(key) == DigitCount(key) > 18

LooksLikeTenantId(key) == DigitCount(key) > 10

AnyTenantId(data) == \E key \in Keys(data) : LooksLikeTenantId(key)

(* the dict `data` as the value of a tenant: its keys, a fixed layout *)
AsTenant(data) == [key \in Keys(data) |-> Get(data, key)]

(* the test of the directory loader: any document without a tenant id *)
IsOldDonations_AnyData(data) == data # <<>> /\ ~AnyTenantId(data)

(* line 24: the document has the old top-level section and no tenant id *)
IsOldDonations(data) == Has(data, "weekly_donations") /\ ~AnyTenantId(data)

(* the `not` of the test left out *)
IsOldPlayers_NoNot(data) == data # <<>> /\ AnyTenantId(data)

(* line 41: the document is not empty and has no tenant id *)
IsOldPlayers(data) == data # <<>> /\ ~AnyTenantId(data)

(* load_donations, lines 17-32 *)
load_donations(f) ==
    IF f = NoFile THEN <<>>
    ELSE LET data == json_load(f)
         IN  IF IsOldDonations(data)
             THEN <<Member("0", AsTenant(data))>>
             ELSE data

(* load_registered_players, lines 34-49 *)
load_registered_players(f) ==
    IF f = NoFile THEN <<>>
    ELSE LET data == json_load(f)
         IN  IF IsOldPlayers(data)
             THEN <<Member("0", data)>>
             ELSE data

----------------------------------------------------------------------------
(* The ledger and its file across restarts of the process: DonationTracker *)
(* is constructed, donations arrive through !testdonate, the sweep runs.   *)
(* Here every write succeeds and `file` is the JSON text of the file.      *)

(* A document of the old single-tenant layout: one player, one event. *)
OldDonations ==
    LET record == [amount |-> 1, timestamp |-> isoformat(0)]
    IN  [weekly_donations |->
            <<Member("u1", [name |-> "a", amount |-> 1,
                            donations |-> <<record>>,
                            week_start |-> isoformat(0)])>>,
         total_donations |->
            <<Member("u1", [name |-> "a", amount |-> 1,
                            donations |-> <<record>>])>>,
         last_reset |-> None]

OldDonationsFile == JObj(dump_sections(OldDonations), FALSE)

(* The amounts a moderator gives to !testdonate: amount is any int. *)
TestAmounts == {-1, 1}

(* __init__, lines 11-15, on the files found *)
PersistInit ==
    /\ now = 0
    /\ file \in {NoFile, OldDonationsFile}
    /\ players_file = dump_registered_players(InitPlayers)
    /\ donations_data = load_donations(file)
    /\ registered_players = load_registered_players(players_file)
    /\ loaded = TRUE
    /\ disk = <<>>
    /\ cur = NoTask
    /\ awaiting = {}
    /\ sweptNow = FALSE
    /\ history = [g \in Guilds |-> [u \in Users |-> <<>>]]
    /\ NoLoop /\ NoBoard /\ NoParse /\ NoStart

(* the process starts again: DonationTracker(), main.py line 22 *)
Construct ==
    /\ donations_data' = load_donations(file)
    /\ registered_players' = load_registered_players(players_file)
    /\ loaded' = TRUE
    /\ sweptNow' = FALSE
    /\ UNCHANGED <<now, disk, cur, awaiting, history, file, players_file,
                   loopVars, boardVars, parseVars, startVars>>

(* test_donate, commands.py lines 262-279, with add_donation and its save *)
TestDonate(g, u, amount) ==
    /\ is_player_registered(g, u)
    /\ TotalEvents < MaxEvents
    /\ donations_data' = add_donation(donations_data, g, u,
                                      Get(PlayersOf(g), u), amount, now)
    /\ file' = dump_donations(donations_data')
    /\ history' = [history EXCEPT ![g][u] = Append(@, amount)]
    /\ loaded' = FALSE
    /\ sweptNow' = FALSE
    /\ UNCHANGED <<now, disk, registered_players, cur, awaiting, players_file,
                   loopVars, boardVars, parseVars, startVars>>

(* cleanup_expired_weeks, lines 378-405, with its save *)
CleanupAndSave ==
    /\ donations_data' = cleanup_expired_weeks(donations_data, now)
    /\ file' = IF total_cleaned(donations_data, now) > 0
               THEN dump_donations(donations_data')
               ELSE file
    /\ loaded' = FALSE
    /\ sweptNow' = TRUE
    /\ UNCHANGED <<now, disk, registered_players, cur, awaiting, history,
                   players_file, loopVars, boardVars, parseVars, startVars>>

HoursPass(d) ==
    /\ now + d <= MaxTime
    /\ now' = now + d
    /\ loaded' = FALSE
    /\ sweptNow' = FALSE
    /\ UNCHANGED <<donations_data, disk, registered_players, cur, awaiting,
                   history, file, players_file, loopVars, boardVars,
                   parseVars, startVars>>

PersistNext ==
    \/ Construct
    \/ \E g \in Guilds, u \in Users, amount \in TestAmounts :
          TestDonate(g, u, amount)
    \/ CleanupAndSave
    \/ \E d \in TickSteps : HoursPass(d)

PersistSpec == PersistInit /\ [][PersistNext]_vars

----------------------------------------------------------------------------
(* Migration: DonationTracker() on files of the old flat layout, whose     *)
(* top-level keys are section names or player names.                       *)

(* the members a flat ledger file of the model may have, in file order *)
OldDonationsMembers ==
    dump_sections(OldDonations)
    \o <<Member("alice", dump_total(Get(OldDonations.total_donations, "u1")))>>

(* the members a flat directory file of the model may have *)
OldPlayersMembers ==
    <<Member("alice", JStr("a")), Member("bob", JStr("b")),
      Member("carol", JStr("c"))>>

(* the files made of some of the members *)
FilesOf(members) ==
    {JObj(SelectSeq(members, LAMBDA m : m.k \in keys), FALSE) :
        keys \in SUBSET Keys(members)}

MigrateInit ==
    /\ now = 0
    /\ file \in FilesOf(OldDonationsMembers)
    /\ players_file \in FilesOf(OldPlayersMembers)
    /\ donations_data = <<>>
    /\ registered_players = <<>>
    /\ loaded = FALSE
    /\ disk = <<>>
    /\ cur = NoTask
    /\ awaiting = {}
    /\ sweptNow = FALSE
    /\ history = [g \in Guilds |-> [u \in Users |-> <<>>]]
    /\ NoLoop /\ NoBoard /\ NoParse /\ NoStart

MigrateNext == ~loaded /\ Construct

MigrateSpec == MigrateInit /\ [][MigrateNext]_vars

----------------------------------------------------------------------------
(* The weekly leaderboard of !donations, commands.py lines 141-166, on a   *)
(* window snapshot of the players A, B, C, D inserted in this order.       *)

BoardPlayers == <<"A", "B", "C", "D">>
BoardAmounts == {10, 50, 200}

(* get_weekly_donations(guild_id) when the players donated `amounts` *)
Snapshot(amounts) ==
    [i \in DOMAIN BoardPlayers |->
        Member(BoardPlayers[i],
               [name |-> BoardPlayers[i], amount |-> amounts[i],
                donations |-> <<[amount |-> amounts[i],
                                 timestamp |-> isoformat(0)]>>,
                week_start |-> isoformat(0)])]

(* lines 142-166: the lines of the leaderboard, best first *)
weekly_leaderboard(weekly_data) ==
    LET sorted_weekly == sorted_by_amount(weekly_data)
        top == SubSeq(sorted_weekly, 1,
                      IF Len(sorted_weekly) < TopShown
                      THEN Len(sorted_weekly) ELSE TopShown)
    IN  [i \in DOMAIN top |->
            [rank |-> i, user_id |-> top[i].k, name |-> top[i].v.name,
             amount |-> top[i].v.amount]]

(* commands.py lines 151-153: days_remaining = max(0, 7 - days_elapsed) *)
days_remaining(week_start, t) ==
    Max(0, WeekDays - days(t - fromisoformat(week_start)))

(* the hours left until the week is over *)
hours_remaining_ToExpiry(week_start, t) ==
    Max(0, WeekDays * HoursPerDay - (t - fromisoformat(week_start)))

(* commands.py line 154: max(0, 24 - timedelta.seconds // 3600);           *)
(* timedelta.seconds is the part of the difference below one day            *)
hours_remaining(week_start, t) ==
    Max(0, HoursPerDay - ((t - fromisoformat(week_start)) % HoursPerDay))

(* lines 145-166: the time left that each line of the leaderboard shows   *)
(* when the command runs at time t                                          *)
time_left(weekly_data, t) ==
    LET top == weekly_leaderboard(weekly_data)
    IN  [i \in DOMAIN top |->
            [user_id |-> top[i].user_id,
             days_remaining |->
                days_remaining(Get(weekly_data, top[i].user_id).week_start, t),
             hours_remaining |->
                hours_remaining(Get(weekly_data, top[i].user_id).week_start,
                                t)]]

BoardInit ==
    /\ \E amounts \in [DOMAIN BoardPlayers -> BoardAmounts] :
          board = [weekly_data |-> Snapshot(amounts), shown |-> FALSE,
                   lines |-> <<>>]
    /\ now = 0
    /\ donations_data = <<>>
    /\ disk = <<>>
    /\ registered_players = <<>>
    /\ cur = NoTask
    /\ awaiting = {}
    /\ sweptNow = FALSE
    /\ history = [g \in Guilds |-> [u \in Users |-> <<>>]]
    /\ NoLoop /\ NoFiles /\ NoParse /\ NoStart

ShowLeaderboard ==
    /\ ~board.shown
    /\ board' = [board EXCEPT !.shown = TRUE,
                              !.lines = weekly_leaderboard(board.weekly_data)]
    /\ UNCHANGED <<now, donations_data, disk, registered_players, cur,
                   awaiting, sweptNow, history, loopVars, fileVars, parseVars,
                   startVars>>

BoardNext == ShowLeaderboard

BoardSpec == BoardInit /\ [][BoardNext]_vars

----------------------------------------------------------------------------
(* DirectorySpec: the player directory and its file across restarts, from  *)
(* a file of the old flat layout on: moderators register and unregister     *)
(* players of their guilds, the process starts again.                       *)

(* register_player, lines 288-297 *)
register_player(rp, guild_id, user_id, player_name) ==
    Put(rp, guild_id,
        Put(IF Has(rp, guild_id) THEN Get(rp, guild_id) ELSE <<>>,
            user_id, player_name))

(* unregister_player, lines 299-307, when the player is registered *)
unregister_player(rp, guild_id, user_id) ==
    Put(rp, guild_id, Del(Get(rp, guild_id), user_id))

DirectoryInit ==
    /\ players_file \in FilesOf(OldPlayersMembers)
    /\ file = NoFile
    /\ registered_players = load_registered_players(players_file)
    /\ donations_data = load_donations(file)
    /\ loaded = TRUE
    /\ now = 0
    /\ disk = <<>>
    /\ cur = NoTask
    /\ awaiting = {}
    /\ sweptNow = FALSE
    /\ history = [g \in Guilds |-> [u \in Users |-> <<>>]]
    /\ NoLoop /\ NoBoard /\ NoParse /\ NoStart

(* !register, commands.py lines 12-19, with the save of line 296 *)
RegisterPlayer(g, u, player_name) ==
    /\ registered_players' =
          register_player(registered_players, g, u, player_name)
    /\ players_file' = dump_registered_players(registered_players')
    /\ loaded' = FALSE
    /\ UNCHANGED <<now, donations_data, disk, cur, awaiting, sweptNow,
                   history, file, loopVars, boardVars, parseVars, startVars>>

(* !unregister, commands.py lines 31-38, with the save of line 304 *)
UnregisterPlayer(g, u) ==
    /\ is_player_registered(g, u)
    /\ registered_players' = unregister_player(registered_players, g, u)
    /\ players_file' = dump_registered_players(registered_players')
    /\ loaded' = FALSE
    /\ UNCHANGED <<now, donations_data, disk, cur, awaiting, sweptNow,
                   history, file, loopVars, boardVars, parseVars, startVars>>

DirectoryNext ==
    \/ \E g \in Guilds, u \in Users : RegisterPlayer(g, u, PlayerName(u))
    \/ \E g \in Guilds, u \in Users : UnregisterPlayer(g, u)
    \/ Construct

DirectorySpec == DirectoryInit /\ [][DirectoryNext]_vars

----------------------------------------------------------------------------
(* The three loaders on any content of their file. What a loader returns   *)
(* is written as the JSON value of the Python object, so that a list, a     *)
(* string, a number and None are told apart from a dict.                    *)

(* a file whose content json.load rejects with JSONDecodeError *)
NotJson == [t |-> "text"]

EmptyDict == JObj(<<>>, FALSE)

(* line 72: {"targets": {}} *)
NoTargets == JObj(<<Member("targets", EmptyDict)>>, FALSE)

(* bool(data), line 41 *)
Truthy(j) ==
    CASE j.t = "null" -> FALSE
      [] j.t = "number" -> j.n # 0
      [] j.t = "string" -> j.s # ""
      [] j.t = "array" -> j.items # <<>>
      [] j.t = "object" -> j.members # <<>>

(* `"weekly_donations" in data`, line 24: a key of a dict, an item of a    *)
(* list, a part of a string; TypeError for None and for a number.  The      *)
(* strings of the model are shorter than the section name.                  *)
SectionIn(j) ==
    CASE j.t \in {"null", "number"} -> Raises("TypeError")
      [] j.t = "string" -> Returns(FALSE)
      [] j.t = "array" ->
            Returns(\E i \in DOMAIN j.items :
                       j.items[i] = JStr("weekly_donations"))
      [] j.t = "object" -> Returns(Has(j.members, "weekly_donations"))

(* load_donations, lines 17-32 *)
LoadDonations(f) ==
    IF f = NoFile \/ f = NotJson THEN Returns(EmptyDict)
    ELSE IF SectionIn(f).raised # None THEN SectionIn(f)
    ELSE IF SectionIn(f).value /\ f.t = "object" /\ IsOldDonations(f.members)
    THEN Returns(JObj(<<Member("0", f)>>, FALSE))
    ELSE Returns(f)

(* load_registered_players, lines 34-49: data.keys() is reached when data  *)
(* is truthy, and raises AttributeError unless data is a dict               *)
LoadRegisteredPlayers(f) ==
    IF f = NoFile \/ f = NotJson THEN Returns(EmptyDict)
    ELSE IF ~Truthy(f) THEN Returns(f)
    ELSE IF f.t # "object" THEN Raises("AttributeError")
    ELSE IF IsOldPlayers(f.members)
    THEN Returns(JObj(<<Member("0", f)>>, FALSE))
    ELSE Returns(f)

(* load_weekly_target, lines 62-72 *)
load_weekly_target(f) ==
    IF f = NoFile \/ f = NotJson THEN Returns(NoTargets)
    ELSE Returns(f)

(* no function has been called yet *)
NotCalled == [by |-> "-", value |-> JNull]

(* LedgerSpec: the ledger under whole calls, one after the other, every    *)
(* write succeeding: donations of registered players, the sweep, the        *)
(* clock, and moderators who unregister players.                            *)

MaxAdds == 3

(* the target a moderator sets, and the guild whose moderators act *)
TargetAmounts == {100}
ModeratedGuilds == {"g1"}

(* set_weekly_target, lines 81-84: the file after the call *)
set_weekly_target(f, guild_id, amount) ==
    LET targets == load_weekly_target(f).value
        of_guilds == Get(targets.members, "targets")
    IN  JObj(<<Member("targets",
                      JObj(Put(of_guilds.members, guild_id, JNum(amount)),
                           FALSE))>>, FALSE)

LedgerInit ==
    /\ now = 0
    /\ donations_data = <<>>
    /\ disk = <<>>
    /\ registered_players = InitPlayers
    /\ cur = NoTask
    /\ awaiting = {}
    /\ sweptNow = FALSE
    /\ history = [g \in Guilds |-> [u \in Users |-> <<>>]]
    /\ target_file = NoFile
    /\ returned = NotCalled
    /\ fault = None
    /\ NoLoop /\ NoFiles /\ NoBoard /\ NoParse

(* add_donation, lines 228-286, for a registered player (lines 141-146,    *)
(* 159-163 and commands.py line 272)                                        *)
LedgerAdd(g, u, amount) ==
    /\ is_player_registered(g, u)
    /\ TotalEvents < MaxAdds
    /\ donations_data' = add_donation(donations_data, g, u,
                                      Get(PlayersOf(g), u), amount, now)
    /\ disk' = donations_data'
    /\ history' = [history EXCEPT ![g][u] = Append(@, amount)]
    /\ sweptNow' = FALSE
    /\ UNCHANGED <<now, registered_players, cur, awaiting, aux>>

(* cleanup_expired_weeks, lines 378-405 *)
LedgerSweep ==
    /\ donations_data' = cleanup_expired_weeks(donations_data, now)
    /\ disk' = IF total_cleaned(donations_data, now) > 0
               THEN donations_data' ELSE disk
    /\ sweptNow' = TRUE
    /\ UNCHANGED <<now, registered_players, cur, awaiting, history, aux>>

LedgerTick(d) ==
    /\ now + d <= MaxTime
    /\ now' = now + d
    /\ sweptNow' = FALSE
    /\ UNCHANGED <<donations_data, disk, registered_players, cur, awaiting,
                   history, aux>>

(* !unregister, commands.py lines 31-38 *)
LedgerUnregister(g, u) ==
    /\ is_player_registered(g, u)
    /\ registered_players' = unregister_player(registered_players, g, u)
    /\ sweptNow' = FALSE
    /\ UNCHANGED <<now, donations_data, disk, cur, awaiting, history, aux>>

(* !settarget, commands.py lines 318-326 *)
LedgerSetTarget(g, amount) ==
    /\ amount >= 0
    /\ target_file' = set_weekly_target(target_file, g, amount)
    /\ sweptNow' = FALSE
    /\ UNCHANGED <<now, donations_data, disk, registered_players, cur,
                   awaiting, history, returned, fault, loopVars, fileVars,
                   boardVars, parseVars>>

LedgerNext ==
    \/ \E g \in Guilds, u \in Users, amount \in Amounts :
          LedgerAdd(g, u, amount)
    \/ LedgerSweep
    \/ \E d \in TickSteps : LedgerTick(d)
    \/ \E g \in ModeratedGuilds, u \in Users : LedgerUnregister(g, u)
    \/ \E g \in ModeratedGuilds, amount \in TargetAmounts :
          LedgerSetTarget(g, amount)

LedgerSpec == LedgerInit /\ [][LedgerNext]_vars

----------------------------------------------------------------------------
(* StartSpec: the loaders on files that hold no dict, or no JSON at all.   *)

(* contents that are neither a tenant-keyed nor an old document *)
Corrupt ==
    {NotJson, JNull, JNum(0), JNum(5), JStr(""), JStr("x"), JArr(<<>>),
     JArr(<<JNum(1)>>)}

Documents == Corrupt \cup {NoFile, EmptyDict}

StartInit ==
    /\ file \in Documents
    /\ players_file \in Documents
    /\ target_file \in Documents
    /\ returned = NotCalled
    /\ fault = None
    /\ loaded = FALSE
    /\ now = 0
    /\ donations_data = <<>>
    /\ disk = <<>>
    /\ registered_players = <<>>
    /\ cur = NoTask
    /\ awaiting = {}
    /\ sweptNow = FALSE
    /\ history = [g \in Guilds |-> [u \in Users |-> <<>>]]
    /\ NoLoop /\ NoBoard /\ NoParse

(* the call of one loader: its result, or the exception that leaves it *)
Called(by, outcome) ==
    /\ returned' = [by |-> by,
                    value |-> IF outcome.raised = None THEN outcome.value
                              ELSE JNull]
    /\ fault' = outcome.raised
    /\ UNCHANGED <<now, donations_data, disk, registered_players, cur,
                   awaiting, sweptNow, history, file, players_file, loaded,
                   target_file, loopVars, boardVars, parseVars>>

(* __init__, line 14 *)
CallLoadDonations == Called("load_donations", LoadDonations(file))

(* __init__, line 15 *)
CallLoadRegisteredPlayers ==
    Called("load_registered_players", LoadRegisteredPlayers(players_file))

(* get_weekly_target, line 87, and set_weekly_target, line 82 *)
CallLoadWeeklyTarget ==
    Called("load_weekly_target", load_weekly_target(target_file))

StartNext ==
    \/ CallLoadDonations
    \/ CallLoadRegisteredPlayers
    \/ CallLoadWeeklyTarget

StartSpec == StartInit /\ [][StartNext]_vars

----------------------------------------------------------------------------
(* parse_donation_message, src/bot/donation_tracker.py lines 181-226.      *)
(* A text is a sequence of tokens: a word, one whitespace character, the   *)
(* two stars "**", one digit or one comma.                                  *)

Digits == {"0", "1", "2", "5", "7"}
DigitValue == [c \in Digits |->
                 CASE c = "0" -> 0 [] c = "1" -> 1 [] c = "2" -> 2
                   [] c = "5" -> 5 [] c = "7" -> 7]
Whitespace == {" ", "\n"}

(* str.lower, line 204: the words of the vocabulary written in capitals *)
LowerOf ==
    [t \in {"DONATED", "YOU", "HAVE", "GOLD", "COINS", "CONTRIBUTED", "GAVE",
            "TO", "THE", "CLAN", "DONATION", "ADDED", "TREASURY",
            "DEPOSITED", "RUBIES", "OF", "HELLO", "A", "B"} |->
        CASE t = "DONATED" -> "donated" [] t = "YOU" -> "you"
          [] t = "HAVE" -> "have" [] t = "GOLD" -> "gold"
          [] t = "COINS" -> "coins" [] t = "CONTRIBUTED" -> "contributed"
          [] t = "GAVE" -> "gave" [] t = "TO" -> "to" [] t = "THE" -> "the"
          [] t = "CLAN" -> "clan" [] t = "DONATION" -> "donation"
          [] t = "ADDED" -> "added" [] t = "TREASURY" -> "treasury"
          [] t = "DEPOSITED" -> "deposited" [] t = "RUBIES" -> "rubies"
          [] t = "OF" -> "of" [] t = "HELLO" -> "hello"
          [] t = "A" -> "a" [] t = "B" -> "b"]

lower(content) ==
    [i \in DOMAIN content |->
        IF content[i] \in DOMAIN LowerOf THEN LowerOf[content[i]]
        ELSE content[i]]

(* The elements of a pattern: a word out of a set (`coins?` is "coin" or   *)
(* "coins"), the literal space, a run of whitespace, the captured group of  *)
(* digits with commas between them, and the lazy wildcard.                  *)
Lit(word) == [t |-> "lit", any |-> {word}]
OneOf(words) == [t |-> "lit", any |-> words]
Sp == [t |-> "lit", any |-> {" "}]
Ws == [t |-> "ws", any |-> {}]
Amount == [t |-> "num", any |-> {}]
Lazy == [t |-> "lazy", any |-> {}]
Stars == Lit("**")
Coins == OneOf({"coins", "coin"})
Rubies == OneOf({"rubies", "rubie"})

(* lines 184-202, in the order of the list *)
patterns ==
    << <<Lit("donated"), Ws, Stars, Amount, Stars, Ws, Lit("gold")>>,
       <<Lit("you"), Sp, Lit("have"), Sp, Lit("donated"), Ws, Stars, Amount,
         Stars, Ws, Lit("gold")>>,
       <<Lit("donated"), Ws, Amount, Ws, Coins>>,
       <<Lit("contributed"), Ws, Amount, Ws, Coins>>,
       <<Lit("gave"), Ws, Amount, Ws, Coins>>,
       <<Amount, Ws, Coins, Ws, Lit("donated")>>,
       <<Amount, Ws, Coins, Ws, Lit("to"), Ws, Lit("the"), Ws, Lit("clan")>>,
       <<Lit("clan"), Sp, Lit("donation"), Lazy, Amount>>,
       <<Amount, Ws, Coins, Ws, Lit("added"), Ws, Lit("to"), Ws, Lit("clan")>>,
       <<Lit("clan"), Ws, Lit("treasury"), Lazy, Amount>>,
       <<Amount, Ws, Coins, Ws, Lit("clan"), Ws, Lit("donation")>>,
       <<Lit("deposited"), Ws, Amount, Ws, Coins>>,
       <<Amount, Ws, Coins, Ws, Lit("deposited")>>,
       <<Amount, Ws, Rubies, Ws, Lit("donated")>>,
       <<Lit("donated"), Ws, Amount, Ws, Rubies>>,
       <<Amount, Ws, Rubies, Ws, Lit("to"), Ws, Lit("the"), Ws, Lit("clan")>>,
       <<Amount, Ws, Rubies, Ws, Lit("added"), Ws, Lit("to"), Ws,
         Lit("clan")>> >>

(* the first index from i on whose token is not in the class *)
RECURSIVE RunEnd(_, _, _)
RunEnd(s, i, class) ==
    IF i <= Len(s) /\ s[i] \in class THEN RunEnd(s, i + 1, class) ELSE i

(* the end of the longest group, digits with single commas between them,   *)
(* that starts at the digit s[i]                                            *)
RECURSIVE NumEnd(_, _)
NumEnd(s, i) ==
    LET j == RunEnd(s, i, Digits)
    IN  IF j + 1 <= Len(s) /\ s[j] = "," /\ s[j + 1] \in Digits
        THEN NumEnd(s, j + 1) ELSE j

(* The match of the elements k.. of a pattern at position i of s: <<>> if  *)
(* there is none, else <<the captured group>>. A greedy run or group is     *)
(* never followed by an element that could take a token it gave back, so    *)
(* the longest run is the only candidate; the lazy wildcard takes the       *)
(* fewest tokens, none of them a newline.                                   *)
RECURSIVE MatchFrom(_, _, _, _, _)
MatchFrom(pattern, k, s, i, group) ==
    IF k > Len(pattern) THEN <<group>>
    ELSE LET e == pattern[k]
         IN  CASE e.t = "lit" ->
                    IF i <= Len(s) /\ s[i] \in e.any
                    THEN MatchFrom(pattern, k + 1, s, i + 1, group) ELSE <<>>
               [] e.t = "ws" ->
                    IF i <= Len(s) /\ s[i] \in Whitespace
                    THEN MatchFrom(pattern, k + 1, s,
                                   RunEnd(s, i, Whitespace), group)
                    ELSE <<>>
               [] e.t = "num" ->
                    IF i <= Len(s) /\ s[i] \in Digits
                    THEN MatchFrom(pattern, k + 1, s, NumEnd(s, i),
                                   SubSeq(s, i, NumEnd(s, i) - 1))
                    ELSE <<>>
               [] e.t = "lazy" ->
                    LET rest == MatchFrom(pattern, k + 1, s, i, group)
                    IN  IF rest # <<>> THEN rest
                        ELSE IF i <= Len(s) /\ s[i] # "\n"
                        THEN MatchFrom(pattern, k, s, i + 1, group)
                        ELSE <<>>

(* re.search, line 214: the leftmost match *)
RECURSIVE SearchFrom(_, _, _)
SearchFrom(pattern, s, i) ==
    IF i > Len(s) THEN <<>>
    ELSE LET m == MatchFrom(pattern, 1, s, i, <<>>)
         IN  IF m # <<>> THEN m ELSE SearchFrom(pattern, s, i + 1)

search(pattern, s) == SearchFrom(pattern, s, 1)

(* line 216: match.group(1).replace(",", "") *)
replace_commas_Keep(group) == group

replace_commas(group) == SelectSeq(group, LAMBDA c : c # ",")

(* int(amount_str), line 218; ValueError unless it is a run of digits *)
IsInt(amount_str) ==
    /\ amount_str # <<>>
    /\ \A i \in DOMAIN amount_str : amount_str[i] \in Digits

RECURSIVE int(_)
int(amount_str) ==
    IF amount_str = <<>> THEN 0
    ELSE 10 * int(Front(amount_str)) + DigitValue[amount_str[Len(amount_str)]]

(* lines 207-210: the keywords, looked up as substrings. In the vocabulary  *)
(* a keyword is a word of its own or the front of "contributed".            *)
donation_keywords ==
    {"donated", "donation", "contribute", "clan", "gave", "treasury",
     "deposited", "coins", "rubies"}

KeywordIn(word) ==
    \/ word \in donation_keywords
    \/ word = "contributed" /\ "contribute" \in donation_keywords

HasKeyword(content_lower) ==
    \E i \in DOMAIN content_lower : KeywordIn(content_lower[i])

(* lines 213-223: the first pattern, from i on, whose group is an integer *)
FirstAmount_Zero(content_lower, i) == <<[amount |-> 0]>>

RECURSIVE FirstAmount(_, _)
FirstAmount(content_lower, i) ==
    IF i > Len(patterns) THEN <<>>
    ELSE LET match == search(patterns[i], content_lower)
         IN  IF match # <<>> /\ IsInt(replace_commas(match[1]))
             THEN <<[amount |-> int(replace_commas(match[1]))]>>
             ELSE FirstAmount(content_lower, i + 1)

(* None is <<>>, {"amount": n} is <<[amount |-> n]>> *)
parse_donation_message(content) ==
    LET content_lower == lower(content)
    IN  IF ~HasKeyword(content_lower) THEN <<>>
        ELSE FirstAmount(content_lower, 1)

(* ParseSpec: the pattern extractor on the texts made of one phrase or of   *)
(* two phrases with a space between them, in small or in capital letters.  *)
(* A phrase is one wording of a pattern around one of the numbers, or a     *)
(* filler.                                                                  *)

Numbers == { <<"7">>, <<"1", ",", "2", "5", "0">> }

(* the wording of a pattern around the number: a whitespace run as one     *)
(* space, the lazy wildcard as " of "                                       *)
RECURSIVE Wording(_, _)
Wording(pattern, number) ==
    IF pattern = <<>> THEN <<>>
    ELSE LET e == Head(pattern)
         IN  (CASE e.t = "lit" -> <<CHOOSE word \in e.any : TRUE>>
                [] e.t = "ws" -> <<" ">>
                [] e.t = "num" -> number
                [] e.t = "lazy" -> <<" ", "of", " ">>)
             \o Wording(Tail(pattern), number)

Fillers ==
    { <<"hello">>, <<"clan", "\n", "treasury">>, <<"donated", " ", "gold">>,
      <<"7", " ", "gold">> }

Phrases ==
    Fillers \cup
    { Wording(patterns[i], number) : i \in DOMAIN patterns,
                                     number \in Numbers }

upper(content) ==
    [i \in DOMAIN content |->
        IF \E t \in DOMAIN LowerOf : LowerOf[t] = content[i]
        THEN CHOOSE t \in DOMAIN LowerOf : LowerOf[t] = content[i]
        ELSE content[i]]

Texts ==
    Phrases \cup
    { first \o <<" ">> \o second : first \in Phrases, second \in Phrases }

(* the result of the call, once made *)
Unparsed == [parsed |-> FALSE, value |-> <<>>]
Parsed(value) == [parsed |-> TRUE, value |-> value]

ParseInit ==
    /\ \E content \in Texts : text \in {content, upper(content)}
    /\ donation_info = Unparsed
    /\ now = 0
    /\ donations_data = <<>>
    /\ disk = <<>>
    /\ registered_players = <<>>
    /\ cur = NoTask
    /\ awaiting = {}
    /\ sweptNow = FALSE
    /\ history = [g \in Guilds |-> [u \in Users |-> <<>>]]
    /\ NoLoop /\ NoFiles /\ NoBoard /\ NoStart

(* line 104: the handler parses the text of the message *)
ParseMessage ==
    /\ ~donation_info.parsed
    /\ donation_info' = Parsed(parse_donation_message(text))
    /\ UNCHANGED <<text, now, donations_data, disk, registered_players, cur,
                   awaiting, sweptNow, history, loopVars, fileVars, boardVars,
                   startVars>>

ParseNext == ParseMessage

ParseSpec == ParseInit /\ [][ParseNext]_vars

----------------------------------------------------------------------------
(* SourceSpec: the texts of one message, lines 103-118.  A message has a   *)
(* content and embeds, each with a description and a title; a missing or   *)
(* empty description or title is the empty text (both are false in `if`).  *)

MaxEmbeds == 2

SourceTexts ==
    { <<>>, <<"clan", "\n", "treasury">>,
      Wording(patterns[3], <<"7">>),
      Wording(patterns[6], <<"1", ",", "2", "5", "0">>) }

Embeds == [description : SourceTexts, title : SourceTexts]

EmbedLists ==
    UNION { [1..n -> Embeds] : n \in 0..MaxEmbeds }

SourceMessages == [content : SourceTexts, embeds : EmbedLists]

(* the title is tried before the description *)
RECURSIVE parse_embeds_TitleFirst(_)
parse_embeds_TitleFirst(embeds) ==
    IF embeds = <<>> THEN <<>>
    ELSE LET embed == Head(embeds)
             of_title ==
                 IF embed.title # <<>>
                 THEN parse_donation_message(embed.title) ELSE <<>>
             of_description ==
                 IF embed.description # <<>>
                 THEN parse_donation_message(embed.description) ELSE <<>>
         IN  IF of_title # <<>> THEN of_title
             ELSE IF of_description # <<>> THEN of_description
             ELSE parse_embeds_TitleFirst(Tail(embeds))

(* lines 108-118: the loop over the embeds; it leaves at the first amount *)
RECURSIVE parse_embeds(_)
parse_embeds(embeds) ==
    IF embeds = <<>> THEN <<>>
    ELSE LET embed == Head(embeds)
             of_description ==
                 IF embed.description # <<>>
                 THEN parse_donation_message(embed.description) ELSE <<>>
             of_title ==
                 IF embed.title # <<>>
                 THEN parse_donation_message(embed.title) ELSE <<>>
         IN  IF of_description # <<>> THEN of_description
             ELSE IF of_title # <<>> THEN of_title
             ELSE parse_embeds(Tail(embeds))

(* lines 104-118: donation_info when line 120 tests it *)
parse_message(message) ==
    LET of_content == parse_donation_message(message.content)
    IN  IF of_content # <<>> THEN of_content
        ELSE parse_embeds(message.embeds)

SourceInit ==
    /\ text \in SourceMessages
    /\ donation_info = Unparsed
    /\ now = 0
    /\ donations_data = <<>>
    /\ disk = <<>>
    /\ registered_players = <<>>
    /\ cur = NoTask
    /\ awaiting = {}
    /\ sweptNow = FALSE
    /\ history = [g \in Guilds |-> [u \in Users |-> <<>>]]
    /\ NoLoop /\ NoFiles /\ NoBoard /\ NoStart

ParseSources ==
    /\ ~donation_info.parsed
    /\ donation_info' = Parsed(parse_message(text))
    /\ UNCHANGED <<text, now, donations_data, disk, registered_players, cur,
                   awaiting, sweptNow, history, loopVars, fileVars, boardVars,
                   startVars>>

SourceNext == ParseSources

SourceSpec == SourceInit /\ [][SourceNext]_vars

----------------------------------------------------------------------------
(* RedeliverSpec: one donation message that on_message receives again and  *)
(* again (main.py lines 41-51 keep no record of the messages seen), every  *)
(* write succeeding, with the clock and the sweep in between.  `text` is    *)
(* the message, `returned` counts the calls of the handler that returned.  *)

MaxDeliveries == 3

Delivered(k) == [by |-> "process_donation_message", value |-> k]

(* lines 138-146 and 159-163: add_donation for each player of the          *)
(* attribution, in turn                                                     *)
RECURSIVE AddAll(_, _, _, _, _)
AddAll(dd, g, todo, amount, t) ==
    IF todo = <<>> THEN dd
    ELSE AddAll(add_donation(dd, g, Head(todo), Get(PlayersOf(g), Head(todo)),
                             amount, t),
                g, Tail(todo), amount, t)

RECURSIVE Credit(_, _, _, _)
Credit(h, g, todo, amount) ==
    IF todo = <<>> THEN h
    ELSE Credit([h EXCEPT ![g][Head(todo)] = Append(@, amount)],
                g, Tail(todo), amount)

(* what !weekly showed last: the window snapshot it read, the time of the *)
(* call and the time left of each line                                      *)
NotShown == [weekly_data |-> <<>>, at |-> 0, shown |-> FALSE, lines |-> <<>>]

RedeliverInit ==
    /\ now = 0
    /\ donations_data = <<>>
    /\ disk = <<>>
    /\ registered_players = InitPlayers
    /\ cur = NoTask
    /\ awaiting = {}
    /\ sweptNow = FALSE
    /\ history = [g \in Guilds |-> [u \in Users |-> <<>>]]
    /\ \E g \in Guilds, m \in Messages :
          /\ m.info # <<>>
          /\ text = [g |-> g, mentions |-> m.mentions, names |-> m.names,
                     info |-> m.info]
    /\ donation_info = Unparsed
    /\ target_file = NoFile
    /\ returned = Delivered(0)
    /\ fault = None
    /\ board = NotShown
    /\ NoLoop /\ NoFiles

(* process_donation_message, lines 90-179, on the message once more *)
Deliver ==
    /\ returned.value < MaxDeliveries
    /\ LET todo == Attribution(text.g, text.mentions, text.names)
       IN  /\ donations_data' =
                 AddAll(donations_data, text.g, todo, text.info[1], now)
           /\ disk' = IF todo = <<>> THEN disk ELSE donations_data'
           /\ history' = Credit(history, text.g, todo, text.info[1])
    /\ donation_info' = Parsed(text.info)
    /\ returned' = Delivered(returned.value + 1)
    /\ sweptNow' = FALSE
    /\ UNCHANGED <<now, registered_players, cur, awaiting, text, target_file,
                   fault, loopVars, fileVars, boardVars>>

RedeliverSweep ==
    /\ donations_data' = cleanup_expired_weeks(donations_data, now)
    /\ disk' = IF total_cleaned(donations_data, now) > 0
               THEN donations_data' ELSE disk
    /\ sweptNow' = TRUE
    /\ UNCHANGED <<now, registered_players, cur, awaiting, history, aux>>

RedeliverTick(d) ==
    /\ now + d <= MaxTime
    /\ now' = now + d
    /\ sweptNow' = FALSE
    /\ UNCHANGED <<donations_data, disk, registered_players, cur, awaiting,
                   history, aux>>

(* !weekly, commands.py lines 109-189, in the guild of the message *)
ShowWeekly ==
    /\ LET weekly_data == get_weekly_donations(text.g)
           total_data == get_total_donations(text.g)
       IN  /\ ~(weekly_data = <<>> /\ total_data = <<>>)
           /\ board' = [weekly_data |-> weekly_data, at |-> now,
                        shown |-> TRUE, lines |-> time_left(weekly_data, now)]
    /\ UNCHANGED <<now, donations_data, disk, registered_players, cur,
                   awaiting, sweptNow, history, loopVars, fileVars, parseVars,
                   startVars>>

RedeliverNext ==
    \/ Deliver
    \/ RedeliverSweep
    \/ \E d \in TickSteps : RedeliverTick(d)
    \/ ShowWeekly

RedeliverSpec == RedeliverInit /\ [][RedeliverNext]_vars

----------------------------------------------------------------------------
(* CreditSpec: donations while moderators register and unregister players. *)
(* Every call is whole (none of them awaits before its last write) and     *)
(* every write succeeds.                                                    *)

MaxCredits == 2

CreditInit ==
    /\ now = 0
    /\ donations_data = <<>>
    /\ disk = <<>>
    /\ registered_players = InitPlayers
    /\ cur = NoTask
    /\ awaiting = {}
    /\ sweptNow = FALSE
    /\ history = [g \in Guilds |-> [u \in Users |-> <<>>]]
    /\ NoLoop /\ NoFiles /\ NoBoard /\ NoParse /\ NoStart

(* process_donation_message, lines 120-167, on a message with an amount *)
CreditMessage(g, mentions, names, amount) ==
    /\ LET todo == Attribution(g, mentions, names)
       IN  /\ TotalEvents + Len(todo) <= MaxCredits
           /\ donations_data' = AddAll(donations_data, g, todo, amount, now)
           /\ disk' = IF todo = <<>> THEN disk ELSE donations_data'
           /\ history' = Credit(history, g, todo, amount)
    /\ UNCHANGED <<now, registered_players, cur, awaiting, sweptNow, aux>>

(* test_donate, commands.py lines 262-281 *)
CreditTestDonate(g, u, amount) ==
    /\ TotalEvents < MaxCredits
    /\ IF is_player_registered(g, u)
       THEN /\ donations_data' =
                  add_donation(donations_data, g, u, Get(PlayersOf(g), u),
                               amount, now)
            /\ disk' = donations_data'
            /\ history' = [history EXCEPT ![g][u] = Append(@, amount)]
       ELSE UNCHANGED <<donations_data, disk, history>>
    /\ UNCHANGED <<now, registered_players, cur, awaiting, sweptNow, aux>>

(* !register, commands.py lines 12-29 *)
CreditRegister(g, u) ==
    /\ registered_players' =
          register_player(registered_players, g, u, PlayerName(u))
    /\ UNCHANGED <<now, donations_data, disk, cur, awaiting, sweptNow,
                   history, aux>>

(* !unregister, commands.py lines 31-38 *)
CreditUnregister(g, u) ==
    /\ is_player_registered(g, u)
    /\ registered_players' = unregister_player(registered_players, g, u)
    /\ UNCHANGED <<now, donations_data, disk, cur, awaiting, sweptNow,
                   history, aux>>

CreditNext ==
    \/ \E g \in Guilds, m \in Messages :
          m.info # <<>> /\ CreditMessage(g, m.mentions, m.names, m.info[1])
    \/ \E g \in Guilds, u \in Users, amount \in Amounts :
          CreditTestDonate(g, u, amount)
    \/ \E g \in Guilds, u \in Users : CreditRegister(g, u)
    \/ \E g \in Guilds, u \in Users : CreditUnregister(g, u)

CreditSpec == CreditInit /\ [][CreditNext]_vars

----------------------------------------------------------------------------
(* The search for player names, lines 151-167.  A display name and the     *)
(* searchable text are sequences of characters: the letters a and b, small  *)
(* or capital, the space, and the crossed-swords sign.                      *)

Swords == "<swords>"
Letters == {"a", "b", "A", "B"}

(* str.replace("  ", " "), line 156: from the left, pairs that do not       *)
(* overlap                                                                  *)
RECURSIVE replace_double_space(_)
replace_double_space(s) ==
    IF Len(s) < 2 THEN s
    ELSE IF s[1] = " " /\ s[2] = " "
    THEN <<" ">> \o replace_double_space(SubSeq(s, 3, Len(s)))
    ELSE <<s[1]>> \o replace_double_space(Tail(s))

(* str.strip() *)
RECURSIVE strip(_)
strip(s) ==
    IF s = <<>> THEN s
    ELSE IF s[1] = " " THEN strip(Tail(s))
    ELSE IF s[Len(s)] = " " THEN strip(Front(s))
    ELSE s

(* the sign kept, the rest as in the code *)
clean_player_name_KeepSwords(player_name) ==
    strip(replace_double_space(player_name))

(* line 156 *)
clean_player_name(player_name) ==
    strip(replace_double_space(SelectSeq(player_name, LAMBDA c : c # Swords)))

(* `part in whole` for strings *)
Occurs(part, whole) ==
    \E i \in 1..(Len(whole) - Len(part) + 1) :
        SubSeq(whole, i, i + Len(part) - 1) = part

(* the search that does not stop at the first match: the last one wins *)
RECURSIVE name_match_Last(_, _)
name_match_Last(players, content_to_search) ==
    IF players = <<>> THEN <<>>
    ELSE LET later == name_match_Last(Tail(players), content_to_search)
         IN  IF later # <<>> THEN later
             ELSE IF Occurs(lower(clean_player_name(Head(players).v)),
                            lower(content_to_search))
             THEN <<Head(players).k>>
             ELSE <<>>

(* lines 153-167: the players add_donation is called for by the search, in *)
(* the order of registered_players.items(); the loop breaks at the first    *)
RECURSIVE name_match(_, _)
name_match(players, content_to_search) ==
    IF players = <<>> THEN <<>>
    ELSE IF Occurs(lower(clean_player_name(Head(players).v)),
                   lower(content_to_search))
    THEN <<Head(players).k>>
    ELSE name_match(Tail(players), content_to_search)

(* NameSpec: the search on the directories of at most two players of one   *)
(* guild and the texts of at most MaxChars characters.                      *)

MaxChars == 3

DisplayNames ==
    { <<"a">>, <<"B">>, <<Swords, "a", "b", " ">>, <<"a", " ", " ", "B">>,
      <<Swords>> }

Directories ==
    { <<>> }
    \cup { <<Member(u, n)>> : u \in Users, n \in DisplayNames }
    \cup { <<Member(p[1], n), Member(p[2], m)>> :
             p \in {q \in Users \X Users : q[1] # q[2]},
             n \in DisplayNames, m \in DisplayNames }

SearchedTexts ==
    UNION { [1..n -> Letters \cup {" "}] : n \in 0..MaxChars }

NameInit ==
    /\ \E players \in Directories :
          registered_players = IF players = <<>> THEN <<>>
                               ELSE <<Member("g1", players)>>
    /\ text \in SearchedTexts
    /\ donation_info = Parsed(<<[amount |-> 1]>>)
    /\ returned = NotCalled
    /\ fault = None
    /\ target_file = NoFile
    /\ now = 0
    /\ donations_data = <<>>
    /\ disk = <<>>
    /\ cur = NoTask
    /\ awaiting = {}
    /\ sweptNow = FALSE
    /\ history = [g \in Guilds |-> [u \in Users |-> <<>>]]
    /\ NoLoop /\ NoFiles /\ NoBoard

(* lines 151-167, for a message of g1 without mention of a registered user *)
SearchNames ==
    /\ returned.by = "-"
    /\ returned' = [by |-> "name_match",
                    value |-> name_match(PlayersOf("g1"), text)]
    /\ UNCHANGED <<now, donations_data, disk, registered_players, cur,
                   awaiting, sweptNow, history, fault, target_file,
                   loopVars, fileVars, boardVars, parseVars>>

NameNext == SearchNames

NameSpec == NameInit /\ [][NameNext]_vars

----------------------------------------------------------------------------
(* Properties *)

Week == WeekDays * HoursPerDay

HasWindow(dd, g, u) == Has(WeeklyOf(dd, g), u)
Window(dd, g, u) == Get(WeeklyOf(dd, g), u)
HasTotal(dd, g, u) == Has(TotalOf(dd, g), u)
Total(dd, g, u) == Get(TotalOf(dd, g), u)
Anchor(dd, g, u) == fromisoformat(Window(dd, g, u).week_start)
Last(s) == s[Len(s)]
Event(amount, t) == [amount |-> amount, timestamp |-> isoformat(t)]

(* add_donation has just been called for (g, u) in this step *)
Appended(g, u) == Len(history'[g][u]) = Len(history[g][u]) + 1

(* C1: a donation recorded at time t for a player whose window has anchor *)
(* a joins the window when t - a < 7 days (anchor and earlier events kept, *)
(* amount added to the running total) and otherwise leaves a window whose  *)
(* anchor is t, whose only event is the donation and whose running total   *)
(* is its amount.                                                          *)
C1_WindowAnchorCorrect ==
    [][\A g \in Guilds, u \in Users :
         (Appended(g, u) /\ HasWindow(donations_data, g, u)) =>
            LET w == Window(donations_data, g, u)
                a == Anchor(donations_data, g, u)
                amt == Last(history'[g][u])
            IN  /\ HasWindow(donations_data', g, u)
                /\ IF now - a < Week
                   THEN /\ Anchor(donations_data', g, u) = a
                        /\ Window(donations_data', g, u).donations
                              = Append(w.donations, Event(amt, now))
                        /\ Window(donations_data', g, u).amount
                              = w.amount + amt
                   ELSE /\ Anchor(donations_data', g, u) = now
                        /\ Window(donations_data', g, u).donations
                              = <<Event(amt, now)>>
                        /\ Window(donations_data', g, u).amount = amt]_vars

(* a donation at anchor + 7d0h has started a fresh window *)
C1_Witness ==
    \E g \in Guilds, u \in Users :
        /\ Len(history[g][u]) = 2
        /\ HasWindow(donations_data, g, u)
        /\ Len(Window(donations_data, g, u).donations) = 1
        /\ Anchor(donations_data, g, u) = Week
        /\ now = Week

(* C2: each player's all-time running total equals the sum of every amount *)
(* ever appended for that tenant and player, whatever resets and sweeps     *)
(* happened in between.                                                     *)
C2_TotalIsSumOfAppended ==
    \A g \in Guilds, u \in Users :
        (IF HasTotal(donations_data, g, u)
         THEN Total(donations_data, g, u).amount ELSE 0)
            = SumSeq(history[g][u])

(* two donations of one player with a sweep of the first window between *)
C2_Witness ==
    \E g \in Guilds, u \in Users :
        /\ Len(history[g][u]) = 2
        /\ HasWindow(donations_data, g, u)
        /\ Len(Window(donations_data, g, u).donations) = 1
        /\ Total(donations_data, g, u).amount = SumSeq(history[g][u])
        /\ Total(donations_data, g, u).amount > Window(donations_data, g, u).amount
        /\ disk # <<>>
        /\ ~HasWindow(disk, g, u)

(* C3: in every state the stored running total of every window aggregate   *)
(* equals the sum of the amounts of its events, and so does the running     *)
(* total of every all-time aggregate.                                       *)
C3_RunningTotalIsSumOfEvents ==
    \A g \in Guilds, u \in Users :
        /\ HasWindow(donations_data, g, u) =>
              Window(donations_data, g, u).amount
                 = SumAmounts(Window(donations_data, g, u).donations)
        /\ HasTotal(donations_data, g, u) =>
              Total(donations_data, g, u).amount
                 = SumAmounts(Total(donations_data, g, u).donations)

(* a window reset on write next to an all-time aggregate of two events *)
C3_Witness ==
    \E g \in Guilds, u \in Users :
        /\ HasWindow(donations_data, g, u)
        /\ Len(Window(donations_data, g, u).donations) = 1
        /\ Len(Total(donations_data, g, u).donations) = 2
        /\ Total(donations_data, g, u).donations[1].timestamp = isoformat(0)
        /\ HasWindow(disk, g, u)
        /\ Len(Window(disk, g, u).donations) = 1
        /\ Anchor(disk, g, u) = 0

(* C4: a sweep that follows a completed sweep at the same time, with no     *)
(* add_donation between them, changes neither the in-memory ledger nor the  *)
(* persisted document, and writes nothing.                                  *)
C4_SweepIdempotent ==
    [][(cur = NoTask /\ sweptNow /\ sweptNow') =>
          /\ donations_data' = donations_data
          /\ disk' = disk
          /\ cur'.kind # "sweep"]_vars

(* a sweep that removed a window is complete *)
C4_Witness ==
    /\ cur = NoTask
    /\ sweptNow
    /\ \E g \in Guilds, u \in Users :
          /\ HasTotal(donations_data, g, u)
          /\ ~HasWindow(donations_data, g, u)
          /\ ~HasWindow(disk, g, u)

(* C5: after a sweep at time now no tenant holds a window aggregate with    *)
(* now - anchor >= 7 days, also for players who made no new donation.       *)
C5_NoExpiredWindowAfterSweep ==
    sweptNow =>
        \A g \in Guilds, u \in Users :
            HasWindow(donations_data, g, u) =>
                now - Anchor(donations_data, g, u) < Week

(* the sweep removed the window of a player who did not donate again and   *)
(* kept a younger window                                                   *)
C5_Witness ==
    /\ sweptNow
    /\ \E g \in Guilds, u \in Users :
          /\ HasTotal(donations_data, g, u)
          /\ ~HasWindow(donations_data, g, u)
          /\ Len(history[g][u]) = 1
    /\ \E g \in Guilds, u \in Users : HasWindow(donations_data, g, u)

(* The message of the handler `task` mentions the registered player p,    *)
(* does not mention the registered player q, and its text contains the     *)
(* display name of q.                                                      *)
MentionAndName(task, p, q) ==
    /\ task.kind = "msg"
    /\ p # q
    /\ \E i \in DOMAIN task.mentions : task.mentions[i] = p
    /\ \A i \in DOMAIN task.mentions : task.mentions[i] # q
    /\ is_player_registered(task.g, p)
    /\ is_player_registered(task.g, q)
    /\ Get(PlayersOf(task.g), q) \in task.names

EntryOf(d, key) == IF Has(d, key) THEN <<Get(d, key)>> ELSE <<>>

(* C6: when a donation message mentions a registered player P and its text *)
(* also contains the display name of another registered player Q, the      *)
(* donation is recorded for P (one new event with the message's amount in  *)
(* P's aggregates) and nothing is recorded for Q.                          *)
C6_MentionBeforeName ==
    [][\A p \in Users, q \in Users :
         (cur = NoTask /\ cur'.pc = "save" /\ MentionAndName(cur', p, q)) =>
            LET g == cur'.g
                event == Event(cur'.amount, now)
            IN  /\ cur'.todo = <<p>>
                /\ Appended(g, p)
                /\ HasTotal(donations_data', g, p)
                /\ Last(Total(donations_data', g, p).donations) = event
                /\ HasWindow(donations_data', g, p)
                /\ Last(Window(donations_data', g, p).donations) = event
                /\ history'[g][q] = history[g][q]
                /\ EntryOf(TotalOf(donations_data', g), q)
                      = EntryOf(TotalOf(donations_data, g), q)
                /\ EntryOf(WeeklyOf(donations_data', g), q)
                      = EntryOf(WeeklyOf(donations_data, g), q)]_vars

(* add_donation has run for the mentioned u1 while the text names u2 *)
C6_Witness ==
    /\ cur.pc = "save"
    /\ MentionAndName(cur, "u1", "u2")
    /\ Len(history[cur.g]["u1"]) = 1
    /\ history[cur.g]["u2"] = <<>>

(* C7: a message that mentions several registered players is attributed   *)
(* to the first registered mention only: processing one message appends at *)
(* most one event to the ledger.                                           *)
C7_OneEventPerMessage ==
    cur.kind = "msg" =>
        Len(cur.done) + (IF cur.pc = "save" THEN 1 ELSE 0) <= 1

(* C8: when the durable write fails while a message's donation is being    *)
(* recorded, process_donation_message ends with an explicit failure for    *)
(* its caller.                                                             *)
C8_WriteFailurePropagates ==
    (cur.kind = "msg" /\ cur.pc = "returned" /\ cur.outcome = "error")
        => cur.raised

(* the all-time aggregate of (g, u) in document dd holds the event *)
Holds(dd, g, u, event) ==
    /\ HasTotal(dd, g, u)
    /\ \E i \in DOMAIN Total(dd, g, u).donations :
          Total(dd, g, u).donations[i] = event

(* the running handler sends the check-mark reaction in this step *)
SendsCheck ==
    /\ cur.kind = "msg"
    /\ cur.pc = "save"
    /\ cur' = NoTask
    /\ \E task \in awaiting' : task.outcome = "check"

(* C9: when the check-mark reaction of a message is sent, the persisted    *)
(* ledger document holds the donation of that message for every player it  *)
(* was recorded for: no donation is acknowledged before it is written.     *)
C9_PersistBeforeAck ==
    [][SendsCheck =>
          \A i \in DOMAIN (cur.done \o cur.todo) :
              Holds(disk', cur.g, (cur.done \o cur.todo)[i],
                    Event(cur.amount, now))]_vars

(* a check mark has been sent, after a write that failed earlier left the  *)
(* document behind the in-memory ledger                                    *)
C9_Witness ==
    /\ \E task \in awaiting : task.outcome = "check"
    /\ cur = NoTask
    /\ \E g \in Guilds, u \in Users :
          /\ Len(history[g][u]) = 2
          /\ HasTotal(disk, g, u)
          /\ Len(Total(disk, g, u).donations) = 2

(* C10: no coroutine is ever suspended between the in-memory update of an   *)
(* add_donation or a sweep and its save, so the coroutine that holds the    *)
(* event loop is the only one inside a read-modify-write-save of the ledger *)
(* and the mutations happen in a serial order.                              *)
C10_MutationsSerialized ==
    \A task \in awaiting : ~InMutation(task.pc)

(* a sweep is between its update and its save while a message handler is   *)
(* suspended                                                               *)
C10_Witness ==
    /\ cur.kind = "sweep"
    /\ InMutation(cur.pc)
    /\ \E task \in awaiting : task.kind = "msg" /\ task.outcome = "check"

ExpiredWindow(g, u) ==
    /\ HasWindow(donations_data, g, u)
    /\ now - Anchor(donations_data, g, u) >= Week

(* C11: the scheduled pass keeps its 24-hour cadence, so a window that has  *)
(* reached the age of 7 days, with a day of the model still to come, is     *)
(* eventually reset, also when its player never donates again.              *)
C11_SweepKeepsRunning ==
    \A g \in Guilds, u \in Users :
        (ExpiredWindow(g, u) /\ now + HoursPerDay <= MaxLoopTime)
            ~> ~ExpiredWindow(g, u)

(* the number of window aggregates of the ledger document, all tenants *)
RECURSIVE WindowCount(_)
WindowCount(dd) ==
    IF dd = <<>> THEN 0
    ELSE Len(Head(dd).v.weekly_donations) + WindowCount(Tail(dd))

(* C12: for every ledger document that add_donation and the sweep produce,  *)
(* the empty one included, generate_weekly_report returns a summary         *)
(* without failing: the fixed text when no window aggregate exists, else    *)
(* one line per window aggregate in descending order of running total.      *)
C12_ReportNeverFails ==
    LET report == generate_weekly_report(donations_data, now)
    IN  /\ report.raised = None
        /\ IF WindowCount(donations_data) = 0
           THEN report.value = NoDonationsText
           ELSE /\ Len(report.value.lines) = WindowCount(donations_data)
                /\ \A i, j \in DOMAIN report.value.lines :
                      i < j => report.value.lines[i].amount
                                  >= report.value.lines[j].amount

(* the aggregates of one section: same players, totals and event counts *)
SameAggregates(a, b) ==
    /\ Keys(a) = Keys(b)
    /\ \A u \in Keys(a) :
          /\ Get(a, u).amount = Get(b, u).amount
          /\ Len(Get(a, u).donations) = Len(Get(b, u).donations)

SameLedger(a, b) ==
    /\ Keys(a) = Keys(b)
    /\ \A tenant \in Keys(a) :
          /\ DOMAIN Get(a, tenant) = DOMAIN Get(b, tenant)
          /\ SameAggregates(Get(a, tenant).weekly_donations,
                            Get(b, tenant).weekly_donations)
          /\ SameAggregates(Get(a, tenant).total_donations,
                            Get(b, tenant).total_donations)

(* C13: the ledger that load_donations reads from the file save_donations   *)
(* wrote has the tenants, the players, the window and all-time running      *)
(* totals and the event counts of the ledger that was in memory, whatever   *)
(* add_donation and sweep calls produced it.                                *)
C13_SaveLoadRoundTrip ==
    [][loaded' => SameLedger(donations_data', donations_data)]_vars

(* a ledger with a swept window, written and read back *)
C13_Witness ==
    /\ loaded
    /\ file = dump_donations(donations_data)
    /\ \E g \in Guilds, u \in Users :
          /\ Len(history[g][u]) = 1
          /\ HasTotal(donations_data, g, u)
          /\ ~HasWindow(donations_data, g, u)

(* doc has the one key "0", under which it holds the entries of data *)
WrapsPlayers(doc, data) ==
    /\ Keys(doc) = {"0"}
    /\ Get(doc, "0") = data

WrapsDonations(doc, data) ==
    /\ Keys(doc) = {"0"}
    /\ DOMAIN Get(doc, "0") = Keys(data)
    /\ \A key \in Keys(data) : Get(doc, "0")[key] = Get(data, key)

AmountsOf(weekly_data) == [i \in DOMAIN weekly_data |-> weekly_data[i].v.amount]
OrderOf(lines) == [i \in DOMAIN lines |-> lines[i].user_id]

(* C15: the leaderboard lists every entry of the window snapshot once, in   *)
(* descending order of running total, entries of equal total in the order   *)
(* of the snapshot; the amounts 50, 200, 200, 10 of A, B, C, D give the     *)
(* order B, C, A, D.                                                        *)
C15_LeaderboardOrder ==
    board.shown =>
        LET lines == board.lines
            data == board.weekly_data
        IN  /\ Len(lines) = Len(data)
            /\ {lines[i].user_id : i \in DOMAIN lines} = Keys(data)
            /\ \A i \in DOMAIN lines :
                  lines[i].amount = Get(data, lines[i].user_id).amount
            /\ \A i, j \in DOMAIN lines :
                  i < j =>
                     \/ lines[i].amount > lines[j].amount
                     \/ /\ lines[i].amount = lines[j].amount
                        /\ Idx(data, lines[i].user_id)
                              < Idx(data, lines[j].user_id)
            /\ AmountsOf(data) = <<50, 200, 200, 10>>
                  => OrderOf(lines) = <<"B", "C", "A", "D">>

(* the leaderboard of the amounts 50, 200, 200, 10 has been made *)
C15_Witness ==
    /\ board.shown
    /\ AmountsOf(board.weekly_data) = <<50, 200, 200, 10>>
    /\ OrderOf(board.lines) = <<"B", "C", "A", "D">>

(* the handler of a message returns in this step without a reaction *)
EndsWithoutMarker == cur'.kind = "msg" /\ cur'.pc = "returned"

(* the handler of a message sends the question-mark reaction in this step *)
SendsQuestion ==
    /\ cur = NoTask
    /\ \E task \in awaiting' \ awaiting : task.outcome = "question"

(* C16: a processed message ends in one of three outcomes that its marker   *)
(* tells apart: recorded (check mark), detected but unattributed (question  *)
(* mark) and not a donation (no marker); a message that ends with the       *)
(* question mark or with no marker has left the in-memory ledger, the       *)
(* persisted ledger and the player directory as they were when it arrived.  *)
C16_ThreeOutcomes ==
    [][(EndsWithoutMarker \/ SendsQuestion) =>
          /\ cur = NoTask
          /\ donations_data' = donations_data
          /\ disk' = disk
          /\ registered_players' = registered_players]_vars

(* every event of every aggregate of one section is non-negative *)
NonNegativeEvents(section) ==
    \A u \in Keys(section) :
        \A i \in DOMAIN Get(section, u).donations :
            Get(section, u).donations[i].amount >= 0

(* C17: every donation event stored in a window or in an all-time aggregate *)
(* has a non-negative amount, whether message ingestion or the manual       *)
(* test-donation command called add_donation.                               *)
C17_NoNegativeEvent ==
    \A g \in Guilds :
        /\ NonNegativeEvents(WeeklyOf(donations_data, g))
        /\ NonNegativeEvents(TotalOf(donations_data, g))

(* what pattern i alone finds in the text: <<>> or <<its group>> *)
Capture(i) == search(patterns[i], lower(text))
CaptureAmount(i) == int(replace_commas(Capture(i)[1]))
Matching == {i \in DOMAIN patterns : Capture(i) # <<>>}

(* <<specific, generic>>: "you have donated **N** gold" against            *)
(* "donated **N** gold", "N coins clan donation" against "clan donation N"  *)
SpecificOverGeneric == { <<2, 1>>, <<11, 8>> }

(* C18: rule order is confidence order: when a text is matched by a more    *)
(* specific and by a more generic rule, and by no other, and the two        *)
(* capture different amounts, the amount returned is the capture of the     *)
(* specific rule.                                                           *)
C18_SpecificRuleWins ==
    donation_info.parsed =>
        \A pair \in SpecificOverGeneric :
            (/\ Matching = {pair[1], pair[2]}
             /\ CaptureAmount(pair[1]) # CaptureAmount(pair[2]))
            => donation_info.value = <<[amount |-> CaptureAmount(pair[1])]>>

(* the numbers written in the text: its longest runs of digits and commas *)
InNumber == Digits \cup {","}
EmbeddedNumbers(content) ==
    { SubSeq(content, i, RunEnd(content, i, InNumber) - 1) :
        i \in { j \in DOMAIN content :
                  /\ content[j] \in InNumber
                  /\ j = 1 \/ content[j - 1] \notin InNumber } }

(* the integer a number of the texts stands for *)
NumberValue(number) ==
    CASE number = <<"7">> -> 7
      [] number = <<"1", ",", "2", "5", "0">> -> 1250

InCapitals(content) == \E i \in DOMAIN content : content[i] \in DOMAIN LowerOf

(* C19: for every phrasing that the rule list supports, that is a text     *)
(* with one number that some rule matches, parse_donation_message returns  *)
(* exactly that integer, thousands separators removed ("1,250" is 1250),    *)
(* whatever the letter case of the text.                                    *)
C19_ExactAmount ==
    donation_info.parsed =>
        \A number \in Numbers :
            (EmbeddedNumbers(text) = {number} /\ Matching # {})
            => donation_info.value = <<[amount |-> NumberValue(number)]>>

C19_Witness ==
    /\ donation_info.parsed
    /\ InCapitals(text)
    /\ EmbeddedNumbers(text) = { <<"1", ",", "2", "5", "0">> }
    /\ donation_info.value = <<[amount |-> 1250]>>

(* C20: parse_donation_message returns None for a text with none of the    *)
(* donation keywords, and for a text with a keyword but no amount that a    *)
(* rule matches; no capture is returned in either case.                     *)
C20_NoneWithoutKeywordOrAmount ==
    donation_info.parsed =>
        /\ ~HasKeyword(lower(text)) => donation_info.value = <<>>
        /\ (HasKeyword(lower(text)) /\ Matching = {})
           => donation_info.value = <<>>

C20_Witness ==
    /\ donation_info.parsed
    /\ HasKeyword(lower(text))
    /\ EmbeddedNumbers(text) # {}
    /\ Matching = {}
    /\ donation_info.value = <<>>

(* a text without keyword, with a number, has been parsed *)
C20_WitnessNoKeyword ==
    /\ donation_info.parsed
    /\ ~HasKeyword(lower(text))
    /\ EmbeddedNumbers(text) # {}
    /\ donation_info.value = <<>>

(* the file a loader reads, and the store it starts fresh with *)
FileOf(by) ==
    CASE by = "load_donations" -> file
      [] by = "load_registered_players" -> players_file
      [] by = "load_weekly_target" -> target_file

FreshStore(by) == IF by = "load_weekly_target" THEN NoTargets ELSE EmptyDict

(* C21: loading a document that is neither a tenant-keyed nor an old       *)
(* document (corrupt content) raises no fault and returns the empty store;  *)
(* so for the ledger, for the player directory and for the targets, each    *)
(* on its own.                                                              *)
C21_CorruptLoadsFresh ==
    (returned.by # "-" /\ FileOf(returned.by) \in Corrupt) =>
        /\ fault = None
        /\ returned.value = FreshStore(returned.by)

(* get_weekly_donations and get_total_donations, lines 319-327, on dd *)
Reads(dd) ==
    [g \in Guilds |-> [weekly |-> WeeklyOf(dd, g), total |-> TotalOf(dd, g)]]

(* C22: whenever a read can run, that is while no append and no sweep is   *)
(* in progress, get_weekly_donations and get_total_donations return the     *)
(* state of the last persisted ledger document, also after calls whose      *)
(* write failed: a mutation whose write failed is never seen by a read.     *)
C22_ReadsSeePersisted ==
    cur = NoTask => Reads(donations_data) = Reads(disk)

(* the JSON document maps tenants to dicts from identities to names *)
TenantKeyed(j) ==
    /\ j.t = "object"
    /\ \A i \in DOMAIN j.members :
          /\ j.members[i].v.t = "object"
          /\ \A n \in DOMAIN j.members[i].v.members :
                j.members[i].v.members[n].v.t = "string"

(* the directory came from an old file and register_player has saved it *)
MigratedAndSaved ==
    /\ Has(registered_players, "0")
    /\ Keys(registered_players) \cap Guilds # {}
    /\ players_file = dump_registered_players(registered_players)

(* C23: migration is stable across a save and a load: after an old player  *)
(* directory was loaded (wrapped under tenant "0"), changed by              *)
(* register_player and saved, the next load returns a document whose every  *)
(* top-level key is a tenant that maps identities directly to names; it is  *)
(* the directory that was saved, not wrapped a second time.                 *)
C23_MigrationStable ==
    [][(loaded' /\ MigratedAndSaved) =>
          /\ TenantKeyed(LoadRegisteredPlayers(players_file').value)
          /\ registered_players' = registered_players]_vars

C23_Witness ==
    /\ loaded
    /\ Has(registered_players, "0")
    /\ Has(registered_players, "g1")
    /\ Has(Get(registered_players, "0"), "alice")
    /\ TenantKeyed(players_file)

(* the clean name of the player at place i of the directory of g1 occurs  *)
(* in the text, letter case aside                                           *)
NameOccurs(i) ==
    Occurs(lower(clean_player_name(PlayersOf("g1")[i].v)), lower(text))

(* C24: when no mention resolves to a registered player, the donation is    *)
(* attributed to the first player, in the iteration order of the tenant's   *)
(* directory, whose cleaned display name occurs in the searchable text      *)
(* whatever the letter case, and to no other player even if several names   *)
(* occur; if no name occurs, nothing is recorded.                           *)
C24_FirstNameMatch ==
    returned.by = "name_match" =>
        LET players == PlayersOf("g1")
            hits == {i \in DOMAIN players : NameOccurs(i)}
        IN  IF hits = {} THEN returned.value = <<>>
            ELSE \E i \in hits :
                    /\ \A j \in hits : i <= j
                    /\ returned.value = <<players[i].k>>

(* two names occur, the second player's written with the sign and in       *)
(* other letter case than in the text; the first player is attributed       *)
C24_Witness ==
    /\ returned.by = "name_match"
    /\ Len(PlayersOf("g1")) = 2
    /\ NameOccurs(1) /\ NameOccurs(2)
    /\ PlayersOf("g1")[1].v # PlayersOf("g1")[2].v
    /\ PlayersOf("g1")[1].v = <<"B">>
    /\ text = <<"A", "b", " ">>
    /\ returned.value = <<PlayersOf("g1")[1].k>>

(* the aggregates of (g, u) are the same before and after the step *)
SameWindow(g, u) ==
    /\ HasWindow(donations_data', g, u) <=> HasWindow(donations_data, g, u)
    /\ HasWindow(donations_data, g, u) =>
          Window(donations_data', g, u) = Window(donations_data, g, u)

SameTotal(g, u) ==
    /\ HasTotal(donations_data', g, u) <=> HasTotal(donations_data, g, u)
    /\ HasTotal(donations_data, g, u) =>
          Total(donations_data', g, u) = Total(donations_data, g, u)

(* C25: add_donation for (tenant, identity) changes only the window and    *)
(* the all-time aggregate of that pair: the aggregates of every other       *)
(* player of the tenant and of every other tenant, the player directory     *)
(* and the targets stay as they are, so a reset on write of one player      *)
(* never resets the window of another.                                      *)
C25_AddDonationFrame ==
    [][\A g \in Guilds, u \in Users :
          Appended(g, u) =>
              /\ \A g2 \in Guilds, u2 \in Users :
                    <<g2, u2>> # <<g, u>> =>
                        SameWindow(g2, u2) /\ SameTotal(g2, u2)
              /\ registered_players' = registered_players
              /\ target_file' = target_file]_vars

(* u1 of g1 has been reset on write while the window of u2, as old and     *)
(* expired, is still there, and a target is set                             *)
C25_Witness ==
    /\ Len(history["g1"]["u1"]) = 2
    /\ HasWindow(donations_data, "g1", "u1")
    /\ Len(Window(donations_data, "g1", "u1").donations) = 1
    /\ HasWindow(donations_data, "g1", "u2")
    /\ now - Anchor(donations_data, "g1", "u2") >= Week
    /\ Anchor(donations_data, "g1", "u1") = now
    /\ target_file # NoFile

(* a call of cleanup_expired_weeks that is not a repetition at the same    *)
(* time of the call before it                                               *)
Swept == ~sweptNow /\ sweptNow'

Unexpired(g, u) ==
    HasWindow(donations_data, g, u)
    => now - Anchor(donations_data, g, u) < Week

(* C26: cleanup_expired_weeks at time now leaves every window aggregate    *)
(* with now - anchor < 7 days as it was (anchor, events and running        *)
(* total), and leaves every all-time aggregate, the player directory and   *)
(* the targets as they were; when no window is expired neither the ledger  *)
(* in memory nor the persisted document changes.                           *)
C26_CleanupFrame ==
    [][Swept =>
          /\ \A g \in Guilds, u \in Users :
                /\ HasWindow(donations_data, g, u) /\ Unexpired(g, u)
                      => SameWindow(g, u)
                /\ SameTotal(g, u)
          /\ registered_players' = registered_players
          /\ target_file' = target_file
          /\ (\A g \in Guilds, u \in Users : Unexpired(g, u))
                => donations_data' = donations_data /\ disk' = disk]_vars

(* the sweep has just deleted u1's expired window and kept u2's, in the    *)
(* same guild, which is not expired                                         *)
C26_Witness ==
    /\ sweptNow
    /\ history["g1"]["u1"] # <<>>
    /\ ~HasWindow(donations_data, "g1", "u1")
    /\ HasWindow(donations_data, "g1", "u2")
    /\ HasTotal(donations_data, "g1", "u1")
    /\ target_file # NoFile

IsPrefix(before, after) ==
    /\ Len(before) <= Len(after)
    /\ SubSeq(after, 1, Len(before)) = before

(* the amounts of a list of events, in the order of the list *)
EventAmounts(donations) ==
    [i \in DOMAIN donations |-> donations[i].amount]

(* C27: across every step (add_donation with or without the reset on       *)
(* write, cleanup_expired_weeks, unregister_player) a player's all-time     *)
(* aggregate stays, its event sequence before the step is a prefix of the  *)
(* sequence after it, and the events are in the order they were appended.  *)
C27_TotalsAppendOnly ==
    [][\A g \in Guilds, u \in Users :
          /\ HasTotal(donations_data, g, u) =>
                /\ HasTotal(donations_data', g, u)
                /\ IsPrefix(Total(donations_data, g, u).donations,
                            Total(donations_data', g, u).donations)
          /\ HasTotal(donations_data', g, u) =>
                EventAmounts(Total(donations_data', g, u).donations)
                    = history'[g][u]]_vars

(* u1 gave 1 and then 2, each time after the window before had been       *)
(* reset or swept, and has been unregistered since                          *)
C27_Witness ==
    /\ history["g1"]["u1"] = <<1, 2>>
    /\ ~is_player_registered("g1", "u1")
    /\ HasTotal(donations_data, "g1", "u1")
    /\ Len(Total(donations_data, "g1", "u1").donations) = 2
    /\ HasWindow(donations_data, "g1", "u1")
    /\ Len(Window(donations_data, "g1", "u1").donations) = 1

(* C28: every window aggregate has an event, its anchor is the timestamp  *)
(* of its first event, and every event of it has a timestamp t with        *)
(* 0 <= t - anchor < 7 days; the anchor is thus fixed by the player's own  *)
(* first donation, not by a boundary common to the players.                *)
C28_WindowAnchored ==
    \A g \in Guilds, u \in Users :
       HasWindow(donations_data, g, u) =>
          LET w == Window(donations_data, g, u)
              anchor == fromisoformat(w.week_start)
          IN  /\ w.donations # <<>>
              /\ w.week_start = w.donations[1].timestamp
              /\ \A i \in DOMAIN w.donations :
                    LET t == fromisoformat(w.donations[i].timestamp)
                    IN  0 <= t - anchor /\ t - anchor < Week

(* two windows of one guild: u1's is anchored at hour 0 and holds a second *)
(* event of hour 167, u2's is anchored at hour 167                          *)
C28_Witness ==
    /\ HasWindow(donations_data, "g1", "u1")
    /\ HasWindow(donations_data, "g1", "u2")
    /\ Anchor(donations_data, "g1", "u1") = 0
    /\ Len(Window(donations_data, "g1", "u1").donations) = 2
    /\ Window(donations_data, "g1", "u1").donations[2].timestamp
          = isoformat(Week - 1)
    /\ Anchor(donations_data, "g1", "u2") = Week - 1

(* the window of (g, u) is there and has expired at time t *)
ExpiredAt(g, u, t) ==
    /\ HasWindow(donations_data, g, u)
    /\ t - Anchor(donations_data, g, u) >= Week

(* add_donation at time now, after cleanup_expired_weeks ran at time ts *)
AfterSweep(g, u, amount, ts) ==
    add_donation(cleanup_expired_weeks(donations_data, ts), g, u,
                 Get(PlayersOf(g), u), amount, now)

(* add_donation at time now with no sweep since the expiry *)
WithoutSweep(g, u, amount) ==
    add_donation(donations_data, g, u, Get(PlayersOf(g), u), amount, now)

(* C29: for a registered player whose window has expired, add_donation at  *)
(* time now leaves the same window aggregate (anchor now, the donation as  *)
(* only event, running total equal to its amount) and the same all-time    *)
(* aggregate whether or not cleanup_expired_weeks ran between the expiry   *)
(* and the donation.                                                        *)
C29_ResetAgreesWithSweep ==
    \A g \in Guilds, u \in Users :
       is_player_registered(g, u) /\ ExpiredAt(g, u, now) =>
          \A ts \in (Anchor(donations_data, g, u) + Week)..now,
             amount \in Amounts :
             LET direct == WithoutSweep(g, u, amount)
                 swept == AfterSweep(g, u, amount, ts)
             IN  /\ ExpiredAt(g, u, ts)
                 /\ ~HasWindow(cleanup_expired_weeks(donations_data, ts),
                               g, u)
                 /\ Window(direct, g, u) = Window(swept, g, u)
                 /\ Window(direct, g, u) =
                       [name |-> Get(PlayersOf(g), u), amount |-> amount,
                        donations |-> <<Event(amount, now)>>,
                        week_start |-> isoformat(now)]
                 /\ Total(direct, g, u) = Total(swept, g, u)

(* u1 is registered and its window, of two events, has expired; the sweep  *)
(* has not run since                                                        *)
C29_Witness ==
    /\ is_player_registered("g1", "u1")
    /\ ExpiredAt("g1", "u1", now)
    /\ Len(Window(donations_data, "g1", "u1").donations) = 2
    /\ ~sweptNow

(* the texts of a message in the order body, then for each embed its       *)
(* description and its title                                                *)
RECURSIVE EmbedSources(_)
EmbedSources(embeds) ==
    IF embeds = <<>> THEN <<>>
    ELSE <<Head(embeds).description, Head(embeds).title>>
         \o EmbedSources(Tail(embeds))

Sources(message) == <<message.content>> \o EmbedSources(message.embeds)

Yielding(message) ==
    {i \in DOMAIN Sources(message) :
        parse_donation_message(Sources(message)[i]) # <<>>}

(* C30: the amount found for a message is the amount of the first text, in *)
(* the order body, description, title, that yields one, and none when no   *)
(* text yields one: the body's amount wins over a description's or a       *)
(* title's, and a description's over the title of the same embed.           *)
C30_SourcePrecedence ==
    donation_info.parsed =>
       LET yielding == Yielding(text)
       IN  IF yielding = {} THEN donation_info.value = <<>>
           ELSE LET first == CHOOSE i \in yielding :
                                \A j \in yielding : i <= j
                IN  donation_info.value
                       = parse_donation_message(Sources(text)[first])

(* the body yields nothing, the description of the first embed 1250 and    *)
(* its title 7: 1250 is found                                               *)
C30_Witness ==
    /\ donation_info.parsed
    /\ parse_donation_message(text.content) = <<>>
    /\ Len(text.embeds) >= 1
    /\ parse_donation_message(text.embeds[1].description)
          = <<[amount |-> 1250]>>
    /\ parse_donation_message(text.embeds[1].title) = <<[amount |-> 7]>>
    /\ donation_info.value = <<[amount |-> 1250]>>

(* the body yields 7 and a description 1250: 7 is found *)
C30_WitnessBody ==
    /\ donation_info.parsed
    /\ parse_donation_message(text.content) = <<[amount |-> 7]>>
    /\ Len(text.embeds) >= 1
    /\ parse_donation_message(text.embeds[1].description)
          = <<[amount |-> 1250]>>
    /\ donation_info.value = <<[amount |-> 7]>>

(* the players the message of RedeliverSpec is attributed to *)
Credited == Attribution(text.g, text.mentions, text.names)

(* every event of the all-time aggregate lies in the week that its first   *)
(* event started: no reset and no sweep has touched the window              *)
NoResetYet(g, u) ==
    /\ HasWindow(donations_data, g, u)
    /\ LET donations == Total(donations_data, g, u).donations
       IN  \A i \in DOMAIN donations :
              fromisoformat(donations[i].timestamp)
                 - fromisoformat(donations[1].timestamp) < Week

(* C31: after the same donation message has been processed k times, each   *)
(* player it is attributed to has k events of its amount in the all-time   *)
(* aggregate, whose running total is k times the amount, and, when no      *)
(* reset happened in between, the same k events and running total in the   *)
(* window aggregate: equal events are not merged.                           *)
C31_NoDeduplication ==
    LET k == returned.value
        amount == text.info[1]
    IN  k > 0 =>
          \A i \in DOMAIN Credited :
             LET u == Credited[i]
             IN  /\ HasTotal(donations_data, text.g, u)
                 /\ Len(Total(donations_data, text.g, u).donations) = k
                 /\ \A j \in 1..k :
                       Total(donations_data, text.g, u).donations[j].amount
                          = amount
                 /\ Total(donations_data, text.g, u).amount = k * amount
                 /\ NoResetYet(text.g, u) =>
                       /\ Window(donations_data, text.g, u).donations
                             = Total(donations_data, text.g, u).donations
                       /\ Window(donations_data, text.g, u).amount
                             = k * amount

(* a message that mentions u1 has been processed three times, twice in the *)
(* same hour: three events, the first two equal, in one window              *)
C31_Witness ==
    /\ returned.value = 3
    /\ text.g = "g1" /\ text.mentions = <<"u1">> /\ text.info = <<2>>
    /\ HasWindow(donations_data, "g1", "u1")
    /\ Len(Window(donations_data, "g1", "u1").donations) = 3
    /\ Window(donations_data, "g1", "u1").donations[1]
          = Window(donations_data, "g1", "u1").donations[2]
    /\ Window(donations_data, "g1", "u1").amount = 6
    /\ Total(donations_data, "g1", "u1").amount = 6
    /\ now = Week - 1

(* C32: whenever !weekly shows a player whose reset condition holds at    *)
(* the time of the call (whole days since the anchor >= 7, the window not  *)
(* yet swept or reset), the line shows 0 days and more than 0 hours left:  *)
(* the hours are those left in the current day since the anchor, not in    *)
(* the week, so the display and the reset decision disagree.               *)
C32_HoursLeftAfterExpiry ==
    board.shown =>
       \A i \in DOMAIN board.lines :
          LET line == board.lines[i]
              data == Get(board.weekly_data, line.user_id)
          IN  WeekExpiredOnAdd(data.week_start, board.at) =>
                 /\ line.days_remaining = 0
                 /\ line.hours_remaining > 0

(* !weekly has just run, 7 days after u1's only donation and before any   *)
(* sweep: the reset is due and the line of u1 says 0 days 24 hours left    *)
C32_Witness ==
    /\ board.shown
    /\ board.at = now
    /\ now = Week
    /\ text.g = "g1"
    /\ HasWindow(donations_data, "g1", "u1")
    /\ Anchor(donations_data, "g1", "u1") = 0
    /\ WeekExpiredOnAdd(Window(donations_data, "g1", "u1").week_start, now)
    /\ \E i \in DOMAIN board.lines :
          /\ board.lines[i].user_id = "u1"
          /\ board.lines[i].days_remaining = 0
          /\ board.lines[i].hours_remaining = HoursPerDay

IsSuffix(tail, whole) ==
    /\ Len(tail) <= Len(whole)
    /\ SubSeq(whole, Len(whole) - Len(tail) + 1, Len(whole)) = tail

(* no recorded event has a negative amount *)
AllNonNegative ==
    \A g \in Guilds :
        /\ NonNegativeEvents(WeeklyOf(donations_data, g))
        /\ NonNegativeEvents(TotalOf(donations_data, g))

(* C33: every player with a window aggregate has an all-time aggregate,    *)
(* the events of the window are the last events of the all-time aggregate, *)
(* and, in the states where no recorded amount is negative, the running    *)
(* total of the window does not exceed the all-time running total.         *)
C33_WindowSuffixOfTotal ==
    \A g \in Guilds, u \in Users :
       HasWindow(donations_data, g, u) =>
          /\ HasTotal(donations_data, g, u)
          /\ IsSuffix(Window(donations_data, g, u).donations,
                      Total(donations_data, g, u).donations)
          /\ AllNonNegative =>
                Window(donations_data, g, u).amount
                   <= Total(donations_data, g, u).amount

(* u1 gave 1 twice, a week apart: the window holds the second event only  *)
(* and its running total is below the all-time one                          *)
C33_Witness ==
    /\ AllNonNegative
    /\ HasWindow(donations_data, "g1", "u1")
    /\ HasTotal(donations_data, "g1", "u1")
    /\ Len(Window(donations_data, "g1", "u1").donations) = 1
    /\ Len(Total(donations_data, "g1", "u1").donations) = 2
    /\ Window(donations_data, "g1", "u1").amount = 1
    /\ Total(donations_data, "g1", "u1").amount = 2

(* with a negative amount recorded the window can exceed the all-time      *)
(* aggregate: -1, then 1 a week later                                       *)
C33_NegativeExceeds ==
    /\ ~AllNonNegative
    /\ HasWindow(donations_data, "g1", "u1")
    /\ HasTotal(donations_data, "g1", "u1")
    /\ Window(donations_data, "g1", "u1").amount
          > Total(donations_data, "g1", "u1").amount

(* user_id is a key of the directory of guild_id *)
InDirectory(rp, guild_id, user_id) ==
    \E i \in DOMAIN rp :
        /\ rp[i].k = guild_id
        /\ \E j \in DOMAIN rp[i].v : rp[i].v[j].k = user_id

(* C34: an event is appended to the ledger of a guild only for a player    *)
(* who is in the directory of that guild at that moment, so a player       *)
(* registered in another guild only, or unregistered, is credited nothing; *)
(* and the step that unregisters a player changes no aggregate.            *)
C34_CreditOnlyRegistered ==
    [][\A g \in Guilds, u \in Users :
          /\ Appended(g, u) => InDirectory(registered_players, g, u)
          /\ ~InDirectory(registered_players, g, u) =>
                SameWindow(g, u) /\ SameTotal(g, u)
          /\ (InDirectory(registered_players, g, u)
                /\ ~InDirectory(registered_players', g, u)) =>
                donations_data' = donations_data /\ disk' = disk]_vars

(* u2 was credited in g1, then unregistered there; it is registered in g2  *)
(* now and u1 has been credited in g1 since: u2's aggregates are as they    *)
(* were and it has nothing in g2                                            *)
C34_Witness ==
    /\ ~InDirectory(registered_players, "g1", "u2")
    /\ InDirectory(registered_players, "g2", "u2")
    /\ history["g1"]["u2"] = <<2>>
    /\ history["g1"]["u1"] # <<>>
    /\ HasTotal(donations_data, "g1", "u2")
    /\ Total(donations_data, "g1", "u2").amount = 2
    /\ HasWindow(donations_data, "g1", "u2")
    /\ ~HasTotal(donations_data, "g2", "u2")

====
